---- MODULE Spec2Model ----
(***************************************************************************)
(* DrDuck change-fingerprinting and analysis cache.                        *)
(*                                                                         *)
(* Go strings are TLA+ strings (Len, SubSeq and \o act on them byte by     *)
(* byte), so a diff is the text git prints, newlines included.             *)
(* SHA-256 is modelled as an injective digest: Sha256Hex(s) is a string    *)
(* that determines s.  Filesystem calls (MkdirAll, ReadFile, WriteFile)    *)
(* are taken to succeed; time is counted in whole days.                    *)
(***************************************************************************)
EXTENDS Integers, Sequences, FiniteSets, TLC

VARIABLES
    config,     \* CacheConfig held by Storage, Fingerprinter and Manager
    disk,       \* content of .drduck/cache/analysis.json, or NoFile
    now,        \* time.Now(), in days
    git,        \* what the git commands answer in the working directory
    last,       \* the most recent call with its arguments and return values
    fpIn,       \* SpecFP: the pair of raw diffs being fingerprinted
    fpOut,      \* SpecFP: the results of fingerprinting fpIn
    fpPc        \* SpecFP: "input" before the calls, "done" after

vars == <<config, disk, now, git, last, fpIn, fpOut, fpPc>>

cacheVars == <<disk, now, git, last>>
fpVars == <<fpIn, fpOut, fpPc>>

(***************************************************************************)
(* Bounds of the model.                                                    *)
(***************************************************************************)
MaxSections == 2    \* file sections in a raw diff of SpecFP
MaxTime == 2        \* the clock runs from 0 to MaxTime

(***************************************************************************)
(* package strings / path/filepath                                         *)
(***************************************************************************)
HasPrefix(s, prefix) ==
    Len(s) >= Len(prefix) /\ SubSeq(s, 1, Len(prefix)) = prefix

HasSuffix(s, suffix) ==
    Len(s) >= Len(suffix) /\ SubSeq(s, Len(s) - Len(suffix) + 1, Len(s)) = suffix

\* 1-based position of the first occurrence of substr in s, 0 when there is none
Index(s, substr) ==
    LET hits == {i \in 1..(Len(s) - Len(substr) + 1) :
                    SubSeq(s, i, i + Len(substr) - 1) = substr}
    IN  IF hits = {} THEN 0 ELSE CHOOSE i \in hits : \A j \in hits : i <= j

Contains(s, substr) == Index(s, substr) # 0

RECURSIVE Split(_, _)
Split(s, sep) ==
    LET i == Index(s, sep)
    IN  IF i = 0 THEN <<s>>
        ELSE <<SubSeq(s, 1, i - 1)>> \o Split(SubSeq(s, i + Len(sep), Len(s)), sep)

RECURSIVE Join(_, _)
Join(elems, sep) ==
    IF elems = <<>> THEN ""
    ELSE IF Len(elems) = 1 THEN elems[1]
    ELSE elems[1] \o sep \o Join(Tail(elems), sep)

RECURSIVE ReplaceAll(_, _, _)
ReplaceAll(s, old, new) ==
    LET i == Index(s, old)
    IN  IF i = 0 THEN s
        ELSE SubSeq(s, 1, i - 1) \o new
                \o ReplaceAll(SubSeq(s, i + Len(old), Len(s)), old, new)

\* filepath.Match for patterns made of literal bytes, '?' and '*'; '*' and '?'
\* never match the separator '/'.
RECURSIVE Match(_, _)
Match(pattern, name) ==
    IF pattern = "" THEN name = ""
    ELSE LET p    == SubSeq(pattern, 1, 1)
             rest == SubSeq(pattern, 2, Len(pattern))
         IN  IF p = "*"
             THEN \E k \in 0..Len(name) :
                    /\ ~Contains(SubSeq(name, 1, k), "/")
                    /\ Match(rest, SubSeq(name, k + 1, Len(name)))
             ELSE /\ name # ""
                  /\ \/ p = "?" /\ SubSeq(name, 1, 1) # "/"
                     \/ p = SubSeq(name, 1, 1)
                  /\ Match(rest, SubSeq(name, 2, Len(name)))

\* hex.EncodeToString(sha256.Sum(data)), as an injective function of data
Sha256Hex(data) == "sha256(" \o data \o ")"

(***************************************************************************)
(* Fingerprinter                                                           *)
(***************************************************************************)
matchesPattern(filePath, pattern) ==
    IF pattern = "*" THEN TRUE
    ELSE LET p == IF Contains(pattern, "**")
                  THEN ReplaceAll(pattern, "**", "*") ELSE pattern
         IN  IF HasPrefix(p, "*.")
             THEN HasSuffix(filePath, SubSeq(p, 2, Len(p)))
             ELSE IF Contains(p, "*")
                  THEN Match(p, filePath)
                  ELSE filePath = p \/ HasPrefix(filePath, p)

\* Mutant of shouldIncludeFile: a match of an include pattern retains a path
\* that a record directory or an exclude pattern excludes, and without such a
\* match only those paths are excluded
shouldIncludeFile_IncludeOverrides(cfg, filePath) ==
    IF filePath = "" THEN TRUE
    ELSE IF Len(cfg.IncludeFiles) > 0
            /\ \E i \in DOMAIN cfg.IncludeFiles :
                    matchesPattern(filePath, cfg.IncludeFiles[i])
         THEN TRUE
    ELSE IF \E i \in DOMAIN cfg.ADRDirs :
                \/ matchesPattern(filePath, cfg.ADRDirs[i] \o "/*")
                \/ HasPrefix(filePath, cfg.ADRDirs[i] \o "/")
         THEN FALSE
    ELSE ~ \E i \in DOMAIN cfg.ExcludeFiles :
                matchesPattern(filePath, cfg.ExcludeFiles[i])

shouldIncludeFile(cfg, filePath) ==
    IF filePath = "" THEN TRUE
    ELSE IF \E i \in DOMAIN cfg.ADRDirs :
                \/ matchesPattern(filePath, cfg.ADRDirs[i] \o "/*")
                \/ HasPrefix(filePath, cfg.ADRDirs[i] \o "/")
         THEN FALSE
    ELSE IF \E i \in DOMAIN cfg.ExcludeFiles :
                matchesPattern(filePath, cfg.ExcludeFiles[i])
         THEN FALSE
    ELSE IF Len(cfg.IncludeFiles) > 0
         THEN \E i \in DOMAIN cfg.IncludeFiles :
                matchesPattern(filePath, cfg.IncludeFiles[i])
    ELSE TRUE

\* One iteration of filterDiff's loop over the lines; st is the loop state
\* [currentFile, includeCurrentFile, filteredLines].
filterDiffStep(cfg, st, line) ==
    LET header == \/ HasPrefix(line, "diff --git")
                  \/ HasPrefix(line, "+++")
                  \/ HasPrefix(line, "---")
        cur    == IF header /\ Contains(line, " b/")
                  THEN Split(line, " b/")[2]
                  ELSE st.currentFile
        inc    == IF header THEN shouldIncludeFile(cfg, cur)
                  ELSE st.includeCurrentFile
    IN  [currentFile        |-> cur,
         includeCurrentFile |-> inc,
         filteredLines      |-> IF inc \/ cur = ""
                                THEN Append(st.filteredLines, line)
                                ELSE st.filteredLines]

RECURSIVE filterDiffLoop(_, _, _, _)
filterDiffLoop(cfg, lines, i, st) ==
    IF i > Len(lines) THEN st
    ELSE filterDiffLoop(cfg, lines, i + 1, filterDiffStep(cfg, st, lines[i]))

filterDiff(cfg, diff) ==
    IF diff = "" THEN ""
    ELSE LET st0 == [currentFile |-> "", includeCurrentFile |-> FALSE,
                     filteredLines |-> <<>>]
         IN  Join(filterDiffLoop(cfg, Split(diff, "\n"), 1, st0).filteredLines,
                  "\n")

\* git rev-parse --abbrev-ref HEAD: its output, and its error
getCurrentBranch(g) == g.branch

getCurrentBranchErr(g) == IF g.fails = "branch" THEN "exit status 128" ELSE "nil"

\* git rev-parse --verify <remoteBranch>
remoteExists(g, remoteBranch) == remoteBranch \in g.refs

\* git rev-parse --verify <ref>
hasCommits(g, ref) == ref \in g.refs

\* getCommitRange has no failing path: its error is always nil
getCommitRangeErr(g) == "nil"

\* Mutant of getCommitRange: HEAD~3 is tried before the remote branch
getCommitRange_LocalFirst(g) ==
    LET remoteBranch == "origin/" \o getCurrentBranch(g)
    IN  IF hasCommits(g, "HEAD~3") THEN "HEAD~3..HEAD"
        ELSE IF getCurrentBranchErr(g) = "nil" /\ remoteExists(g, remoteBranch)
        THEN remoteBranch \o "..HEAD"
        ELSE "HEAD"

getCommitRange(g) ==
    LET remoteBranch == "origin/" \o getCurrentBranch(g)
    IN  IF getCurrentBranchErr(g) = "nil" /\ remoteExists(g, remoteBranch)
        THEN remoteBranch \o "..HEAD"
        ELSE IF hasCommits(g, "HEAD~3") THEN "HEAD~3..HEAD"
        ELSE "HEAD"

\* The error of git diff HEAD, or git diff <commitRange>
getFilteredChangesErr(g, commitRange) ==
    IF g.fails = "diff" THEN "exit status 128" ELSE "nil"

\* git diff HEAD, or git diff <commitRange>: g.diff is what the command prints
getFilteredChanges(cfg, g, commitRange) ==
    LET diff == g.diff
    IN  IF diff = "" THEN "" ELSE filterDiff(cfg, diff)

\* The Files map of the fingerprint: empty for an empty filtered diff, else
\* the single key "filtered_diff".
generateFileHashes(diff) ==
    IF diff = "" THEN [k \in {} |-> ""]
    ELSE [k \in {"filtered_diff"} |-> Sha256Hex(diff)]

\* The orders in which a range loop may visit the keys of a Go map
KeyOrders(files) ==
    {order \in [1..Cardinality(DOMAIN files) -> DOMAIN files] :
        \A i, j \in DOMAIN order : i # j => order[i] # order[j]}

RECURSIVE hashedBytes(_, _, _)
hashedBytes(files, order, i) ==
    IF i > Len(order) THEN ""
    ELSE order[i] \o files[order[i]] \o hashedBytes(files, order, i + 1)

\* Mutant of hashFingerprint: the Timestamp of the fingerprint is hashed too
hashFingerprint_WithTimestamp(fingerprint, order) ==
    Sha256Hex(fingerprint.CommitRange \o fingerprint.Branch
                \o hashedBytes(fingerprint.Files, order, 1)
                \o ToString(fingerprint.Timestamp))

\* hashFingerprint when the range loop over Files visits the keys in `order`
hashFingerprint(fingerprint, order) ==
    Sha256Hex(fingerprint.CommitRange \o fingerprint.Branch
                \o hashedBytes(fingerprint.Files, order, 1))

(***************************************************************************)
(* Working trees and configurations of the model.  A raw diff is what git  *)
(* prints: one section per changed file, every line ended by a newline.    *)
(***************************************************************************)
SectionText(path) ==
    "diff --git a/" \o path \o " b/" \o path \o "\n"
        \o "--- a/" \o path \o "\n"
        \o "+++ b/" \o path \o "\n"
        \o "@@ -1 +1 @@\n-old\n+new\n"

RECURSIVE RawDiff(_)
RawDiff(paths) ==
    IF paths = <<>> THEN "" ELSE SectionText(Head(paths)) \o RawDiff(Tail(paths))

\* What the git commands answer: the branch name, the references that
\* rev-parse --verify resolves, the diff of the range, and which command fails
\* ("none", "branch" for rev-parse --abbrev-ref HEAD, "diff" for git diff)
GitMain(diff) ==
    [branch |-> "main", refs |-> {"origin/main", "HEAD~3"}, diff |-> diff,
     fails |-> "none"]

\* Working trees: nothing changed; a source file changed; the same with an
\* ADR written next to it
GitStates ==
    {GitMain(RawDiff(paths)) :
        paths \in {<<>>, <<"cmd/a.go">>, <<"cmd/a.go", "docs/adr/1.md">>}}

\* MaxEntries of the configurations of the cache specifications: below the
\* number of content hashes of the working trees, so that a table can fill
Capacities == {0, 1, 2}

CacheConfigs ==
    {[MaxAge |-> 1, MaxEntries |-> n, CleanupAfter |-> 1,
      ExcludeFiles |-> <<"*.md">>, IncludeFiles |-> <<>>,
      ADRDirs |-> <<"docs/adr">>] : n \in Capacities}

\* getFilteredChanges for the working trees of the cache specifications,
\* evaluated once
FilteredChanges ==
    [cfg \in CacheConfigs |->
        [g \in GitStates |-> getFilteredChanges(cfg, g, getCommitRange(g))]]

\* The configurations and working trees of the caller protocol: docs/* is
\* excluded; the trees touch docs/readme.md with or without an ADR on main,
\* or docs/readme.md and the ADR on another branch
ProtocolConfigs ==
    {[MaxAge |-> 1, MaxEntries |-> n, CleanupAfter |-> 1,
      ExcludeFiles |-> <<"docs/*">>, IncludeFiles |-> <<>>,
      ADRDirs |-> <<"docs/adr">>] : n \in Capacities}

ProtocolGitStates ==
    {GitMain(RawDiff(paths)) :
        paths \in {<<"docs/readme.md", "docs/adr/0001.md">>, <<"docs/readme.md">>}}
    \cup {[branch |-> "dev", refs |-> {"HEAD~3"},
           diff |-> RawDiff(<<"docs/readme.md", "docs/adr/0001.md">>),
           fails |-> "none"]}

\* getFilteredChanges for the working trees of the caller protocol, evaluated
\* once
ProtocolChanges ==
    [cfg \in ProtocolConfigs |->
        [g \in ProtocolGitStates |-> getFilteredChanges(cfg, g, getCommitRange(g))]]

\* The error GenerateFingerprint returns
GenerateFingerprintErr(g) ==
    IF getCurrentBranchErr(g) # "nil" THEN "failed to get current branch"
    ELSE IF getFilteredChangesErr(g, getCommitRange(g)) # "nil"
    THEN "failed to get filtered changes"
    ELSE "nil"

\* Every (contentHash, fingerprint) GenerateFingerprint can return at time t
\* when its error is nil
GenerateFingerprint(cfg, g, t) ==
    LET branch       == getCurrentBranch(g)
        commitRange  == getCommitRange(g)
        filteredDiff == IF cfg \in CacheConfigs /\ g \in GitStates
                        THEN FilteredChanges[cfg][g]
                        ELSE IF cfg \in ProtocolConfigs /\ g \in ProtocolGitStates
                        THEN ProtocolChanges[cfg][g]
                        ELSE getFilteredChanges(cfg, g, commitRange)
        fingerprint  == [Files       |-> generateFileHashes(filteredDiff),
                         CommitRange |-> commitRange,
                         Branch      |-> branch,
                         Timestamp   |-> t]
    IN  {[contentHash |-> hashFingerprint(fingerprint, order),
          fingerprint |-> fingerprint] : order \in KeyOrders(fingerprint.Files)}

\* The content hashes of the working trees under cfg, evaluated once
HashesOf ==
    [cfg \in CacheConfigs |->
        UNION {{fp.contentHash : fp \in GenerateFingerprint(cfg, g, 0)}
                : g \in GitStates}]

Hashes(cfg) == HashesOf[cfg]

(***************************************************************************)
(* Storage: the cache file and the operations on it                        *)
(***************************************************************************)
CacheVersion == "1.0"

NilAnalysis == [Nil |-> TRUE]

\* strconv.Atoi on a string of decimal digits
Digit(c) == CHOOSE d \in 0..9 : ToString(d) = c

RECURSIVE Atoi(_)
Atoi(s) ==
    IF s = "" THEN 0
    ELSE 10 * Atoi(SubSeq(s, 1, Len(s) - 1)) + Digit(SubSeq(s, Len(s), Len(s)))

\* time.Time.MarshalJSON / UnmarshalJSON: the instant as text (the model's
\* instants are whole days)
FormatTime(t) == ToString(t) \o "d"
ParseTime(s) == Atoi(SubSeq(s, 1, Len(s) - 1))

\* FormatTime and ParseTime on the instants of the model, evaluated once
TimeTexts == [t \in 0..MaxTime |-> FormatTime(t)]
TextTimes == [s \in {TimeTexts[t] : t \in 0..MaxTime} |-> ParseTime(s)]

MarshalTime(t) == TimeTexts[t]
UnmarshalTime(s) == TextTimes[s]

\* json.Marshal / json.Unmarshal of *AnalysisResult, field by field under the
\* names of the json tags
MarshalAnalysis(a) ==
    [decision         |-> a.Decision,
     suggestion       |-> a.Suggestion,
     title            |-> a.Title,
     timestamp        |-> MarshalTime(a.Timestamp),
     changes_analyzed |-> a.ChangesAnalyzed,
     commit_range     |-> a.CommitRange,
     resolved         |-> a.Resolved,
     resolved_adr_id  |-> a.ResolvedADRID]

\* Mutant of UnmarshalAnalysis: resolved_adr_id is not read
UnmarshalAnalysis_DropsADRID(j) ==
    [Decision        |-> j.decision,
     Suggestion      |-> j.suggestion,
     Title           |-> j.title,
     Timestamp       |-> UnmarshalTime(j.timestamp),
     ChangesAnalyzed |-> j.changes_analyzed,
     CommitRange     |-> j.commit_range,
     Resolved        |-> j.resolved,
     ResolvedADRID   |-> 0]

UnmarshalAnalysis(j) ==
    [Decision        |-> j.decision,
     Suggestion      |-> j.suggestion,
     Title           |-> j.title,
     Timestamp       |-> UnmarshalTime(j.timestamp),
     ChangesAnalyzed |-> j.changes_analyzed,
     CommitRange     |-> j.commit_range,
     Resolved        |-> j.resolved,
     ResolvedADRID   |-> j.resolved_adr_id]

\* The JSON value null.  Unmarshal turns it into the nil map for "entries"
\* (a map with no keys that cannot be written) and into the nil pointer
\* NilAnalysis for "analysis"; a field that is missing is read the same way.
JSONNull == [null |-> TRUE]
IsNull(j) == DOMAIN j = {"null"}
IsNil(analysis) == DOMAIN analysis = {"Nil"}

\* json.MarshalIndent(cache): the document written to the cache file
Marshal(cache) ==
    [version  |-> cache.Version,
     entries  |-> [h \in DOMAIN cache.Entries |->
                    LET entry == cache.Entries[h]
                    IN  [content_hash |-> entry.ContentHash,
                         analysis     |-> IF IsNil(entry.Analysis) THEN JSONNull
                                          ELSE MarshalAnalysis(entry.Analysis)]],
     metadata |-> [last_cleanup |-> MarshalTime(cache.Metadata.LastCleanup),
                   total_size   |-> cache.Metadata.TotalSize,
                   max_age_days |-> cache.Metadata.MaxAge]]

\* json.Unmarshal(data, &cache) of a document that parses
Unmarshal(data) ==
    [Version  |-> data.version,
     Entries  |-> [h \in (IF IsNull(data.entries) THEN {} ELSE DOMAIN data.entries) |->
                    LET entry == data.entries[h]
                    IN  [ContentHash |-> entry.content_hash,
                         Analysis    |-> IF IsNull(entry.analysis) THEN NilAnalysis
                                         ELSE UnmarshalAnalysis(entry.analysis)]],
     Metadata |-> [LastCleanup |-> UnmarshalTime(data.metadata.last_cleanup),
                   TotalSize   |-> data.metadata.total_size,
                   MaxAge      |-> data.metadata.max_age_days]]

\* A cache file: readable says whether os.ReadFile succeeds on it, valid
\* whether json.Unmarshal accepts its content, data is the content (the JSON
\* document, or [text |-> ...] for content that is no JSON document).
File(data) == [exists |-> TRUE, readable |-> TRUE, valid |-> TRUE, data |-> data]

\* The entries recorded in the cache file (none when there is no file or it
\* cannot be read or parsed)
Entries(d) ==
    IF d.exists /\ d.readable /\ d.valid
    THEN Unmarshal(d.data).Entries
    ELSE [k \in {} |-> NilAnalysis]

\* The hashes that have an entry in the cache file
Keys(d) ==
    IF d.exists /\ d.readable /\ d.valid /\ ~IsNull(d.data.entries)
    THEN DOMAIN d.data.entries ELSE {}

createEmptyCache(cfg, t) ==
    [Version  |-> CacheVersion,
     Entries  |-> [k \in {} |-> NilAnalysis],
     Metadata |-> [LastCleanup |-> t, TotalSize |-> 0, MaxAge |-> cfg.MaxAge]]

\* Mutant of migrateCache: the old entries are kept under the new version
migrateCache_KeepsEntries(cfg, t, cache) == [cache EXCEPT !.Version = CacheVersion]

migrateCache(cfg, t, cache) == createEmptyCache(cfg, t)

\* The error of Storage.Load: os.ReadFile fails on a file that exists
LoadErr(d) ==
    IF d.exists /\ ~d.readable THEN "failed to read cache file" ELSE "nil"

\* The cache Storage.Load returns when LoadErr(d) = "nil"
Load(d, cfg, t) ==
    IF ~d.exists THEN createEmptyCache(cfg, t)
    ELSE IF ~d.valid THEN createEmptyCache(cfg, t)
    ELSE LET cache == Unmarshal(d.data)
         IN  IF cache.Version # CacheVersion THEN migrateCache(cfg, t, cache)
             ELSE cache

\* Mutant of Save: the size recorded in the metadata is left as loaded
Save_KeepsTotalSize(cache) == File(Marshal(cache))

\* The file Save writes
Save(cache) ==
    File(Marshal([cache EXCEPT !.Metadata.TotalSize = Cardinality(DOMAIN cache.Entries)]))

isExpired(cfg, analysis, t) == t - analysis.Timestamp > cfg.MaxAge

\* delete(m, key)
Delete(m, key) == [k \in DOMAIN m \ {key} |-> m[k]]

\* Mutant of Store: an existing key keeps its old value
Store_KeepsExisting(m, key, value) ==
    [k \in DOMAIN m \cup {key} |-> IF k \in DOMAIN m THEN m[k] ELSE value]

\* m[key] = value
Store(m, key, value) == [k \in DOMAIN m \cup {key} |-> IF k = key THEN value ELSE m[k]]

\* Mutant of bubbleInner: the comparison is reversed, newest first
RECURSIVE bubbleInner_Descending(_, _, _)
bubbleInner_Descending(entries, i, j) ==
    IF j >= Len(entries) - i - 1 THEN entries
    ELSE bubbleInner_Descending(
            IF entries[j + 1].entry.Analysis.Timestamp
                   < entries[j + 2].entry.Analysis.Timestamp
            THEN [entries EXCEPT ![j + 1] = entries[j + 2], ![j + 2] = entries[j + 1]]
            ELSE entries,
            i, j + 1)

\* The inner loop of the bubble sort, j = j0 .. len(entries)-i-2 (0-based)
RECURSIVE bubbleInner(_, _, _)
bubbleInner(entries, i, j) ==
    IF j >= Len(entries) - i - 1 THEN entries
    ELSE bubbleInner(
            IF entries[j + 1].entry.Analysis.Timestamp
                   > entries[j + 2].entry.Analysis.Timestamp
            THEN [entries EXCEPT ![j + 1] = entries[j + 2], ![j + 2] = entries[j + 1]]
            ELSE entries,
            i, j + 1)

RECURSIVE bubbleSort(_, _)
bubbleSort(entries, i) ==
    IF i >= Len(entries) - 1 THEN entries
    ELSE bubbleSort(bubbleInner(entries, i, 0), i + 1)

\* Mutant of removeOldest: the loop stops one entry above the limit
RECURSIVE removeOldest_OneOver(_, _, _)
removeOldest_OneOver(cfg, m, entries) ==
    IF Cardinality(DOMAIN m) > cfg.MaxEntries + 1 /\ Len(entries) > 0
    THEN removeOldest_OneOver(cfg, Delete(m, entries[1].hash), Tail(entries))
    ELSE m

\* The loop that deletes entries[0] while the map is over the limit
RECURSIVE removeOldest(_, _, _)
removeOldest(cfg, m, entries) ==
    IF Cardinality(DOMAIN m) > cfg.MaxEntries /\ Len(entries) > 0
    THEN removeOldest(cfg, Delete(m, entries[1].hash), Tail(entries))
    ELSE m

\* Mutant of cleanupOldEntries: resolved entries are dropped before the oldest
\* of the others
cleanupOldEntries_ResolvedFirst(cfg, m, order) ==
    IF Cardinality(DOMAIN m) <= cfg.MaxEntries THEN m
    ELSE LET open     == SelectSeq(order, LAMBDA h : ~m[h].Analysis.Resolved)
             unsolved == [h \in {open[i] : i \in DOMAIN open} |-> m[h]]
             entries  == [i \in DOMAIN open |-> [hash |-> open[i], entry |-> m[open[i]]]]
         IN  removeOldest(cfg, unsolved, bubbleSort(entries, 0))

\* cleanupOldEntries on the map m, whose range loop visits the keys in `order`
cleanupOldEntries(cfg, m, order) ==
    IF Cardinality(DOMAIN m) <= cfg.MaxEntries THEN m
    ELSE LET entries == [i \in DOMAIN order |-> [hash |-> order[i], entry |-> m[order[i]]]]
         IN  removeOldest(cfg, m, bubbleSort(entries, 0))

\* Mutant of Get: an expired entry is reported missing but left in the file
Get_KeepsExpired(d, cfg, t, contentHash) ==
    LET cache == Load(d, cfg, t)
    IN  IF LoadErr(d) # "nil"
        THEN [disk |-> d, analysis |-> NilAnalysis, found |-> FALSE]
        ELSE IF contentHash \notin DOMAIN cache.Entries
        THEN [disk |-> d, analysis |-> NilAnalysis, found |-> FALSE]
        ELSE IF isExpired(cfg, cache.Entries[contentHash].Analysis, t)
        THEN [disk |-> d, analysis |-> NilAnalysis, found |-> FALSE]
        ELSE [disk |-> d, analysis |-> cache.Entries[contentHash].Analysis,
              found |-> TRUE]

\* Mutant of Get: finding the entry expired, Get removes every expired entry
Get_PurgesExpired(d, cfg, t, contentHash) ==
    LET cache == Load(d, cfg, t)
        keep  == {h \in DOMAIN cache.Entries :
                    ~isExpired(cfg, cache.Entries[h].Analysis, t)}
    IN  IF LoadErr(d) # "nil"
        THEN [disk |-> d, analysis |-> NilAnalysis, found |-> FALSE]
        ELSE IF contentHash \notin DOMAIN cache.Entries
        THEN [disk |-> d, analysis |-> NilAnalysis, found |-> FALSE]
        ELSE IF isExpired(cfg, cache.Entries[contentHash].Analysis, t)
        THEN [disk     |-> Save([cache EXCEPT
                                    !.Entries = [h \in keep |-> cache.Entries[h]]]),
              analysis |-> NilAnalysis, found |-> FALSE]
        ELSE [disk |-> d, analysis |-> cache.Entries[contentHash].Analysis,
              found |-> TRUE]

\* Storage.Get: the file afterwards and the two return values
Get(d, cfg, t, contentHash) ==
    LET cache == Load(d, cfg, t)
    IN  IF LoadErr(d) # "nil"
        THEN [disk |-> d, analysis |-> NilAnalysis, found |-> FALSE]
        ELSE IF contentHash \notin DOMAIN cache.Entries
        THEN [disk |-> d, analysis |-> NilAnalysis, found |-> FALSE]
        ELSE IF isExpired(cfg, cache.Entries[contentHash].Analysis, t)
        THEN [disk     |-> Save([cache EXCEPT !.Entries = Delete(@, contentHash)]),
              analysis |-> NilAnalysis, found |-> FALSE]
        ELSE [disk |-> d, analysis |-> cache.Entries[contentHash].Analysis,
              found |-> TRUE]

\* Storage.Put: every (file afterwards, error) it can produce
Put(d, cfg, t, contentHash, analysis) ==
    LET cache == Load(d, cfg, t)
        entry == [ContentHash |-> contentHash, Analysis |-> analysis]
        m     == Store(cache.Entries, contentHash, entry)
    IN  IF LoadErr(d) # "nil" THEN {[disk |-> d, err |-> LoadErr(d)]}
        ELSE IF Cardinality(DOMAIN m) > cfg.MaxEntries
        THEN {[disk |-> Save([cache EXCEPT !.Entries = cleanupOldEntries(cfg, m, order)]),
               err  |-> "nil"] : order \in KeyOrders(m)}
        ELSE {[disk |-> Save([cache EXCEPT !.Entries = m]), err |-> "nil"]}

\* Mutant of MarkResolved: the file is written even when the entry is missing
MarkResolved_SavesOnMiss(d, cfg, t, contentHash, adrID) ==
    LET cache == Load(d, cfg, t)
    IN  IF LoadErr(d) # "nil" THEN [disk |-> d, err |-> LoadErr(d)]
        ELSE IF contentHash \notin DOMAIN cache.Entries
        THEN [disk |-> Save(cache), err |-> "cache entry not found"]
        ELSE [disk |-> Save([cache EXCEPT
                                !.Entries[contentHash].Analysis.Resolved = TRUE,
                                !.Entries[contentHash].Analysis.ResolvedADRID = adrID]),
              err  |-> "nil"]

\* Storage.MarkResolved
\* Mutant of MarkResolved: the entry's timestamp is set to the time of the call
MarkResolved_RefreshesTimestamp(d, cfg, t, contentHash, adrID) ==
    LET cache == Load(d, cfg, t)
    IN  IF LoadErr(d) # "nil" THEN [disk |-> d, err |-> LoadErr(d)]
        ELSE IF contentHash \notin DOMAIN cache.Entries
        THEN [disk |-> d, err |-> "cache entry not found"]
        ELSE [disk |-> Save([cache EXCEPT
                                !.Entries[contentHash].Analysis.Resolved = TRUE,
                                !.Entries[contentHash].Analysis.ResolvedADRID = adrID,
                                !.Entries[contentHash].Analysis.Timestamp = t]),
              err  |-> "nil"]

MarkResolved(d, cfg, t, contentHash, adrID) ==
    LET cache == Load(d, cfg, t)
    IN  IF LoadErr(d) # "nil" THEN [disk |-> d, err |-> LoadErr(d)]
        ELSE IF contentHash \notin DOMAIN cache.Entries
        THEN [disk |-> d, err |-> "cache entry not found"]
        ELSE [disk |-> Save([cache EXCEPT
                                !.Entries[contentHash].Analysis.Resolved = TRUE,
                                !.Entries[contentHash].Analysis.ResolvedADRID = adrID]),
              err  |-> "nil"]

\* Mutant of Cleanup: only expired entries are removed
Cleanup_ExpiredOnly(d, cfg, t) ==
    LET cache == Load(d, cfg, t)
        keep  == {h \in DOMAIN cache.Entries :
                    ~isExpired(cfg, cache.Entries[h].Analysis, t)}
        after == [cache EXCEPT !.Entries = [h \in keep |-> cache.Entries[h]],
                               !.Metadata.LastCleanup = t]
    IN  IF LoadErr(d) # "nil" THEN [disk |-> d, err |-> LoadErr(d)]
        ELSE IF Cardinality(keep) < Cardinality(DOMAIN cache.Entries)
        THEN [disk |-> Save(after), err |-> "nil"]
        ELSE [disk |-> d, err |-> "nil"]

\* Mutant of Cleanup: the file is written whether or not an entry was removed
Cleanup_AlwaysSaves(d, cfg, t) ==
    LET cache == Load(d, cfg, t)
        keep  == {h \in DOMAIN cache.Entries :
                    ~(isExpired(cfg, cache.Entries[h].Analysis, t)
                        \/ cache.Entries[h].Analysis.Resolved)}
        after == [cache EXCEPT !.Entries = [h \in keep |-> cache.Entries[h]],
                               !.Metadata.LastCleanup = t]
    IN  IF LoadErr(d) # "nil" THEN [disk |-> d, err |-> LoadErr(d)]
        ELSE [disk |-> Save(after), err |-> "nil"]

\* Storage.Cleanup
Cleanup(d, cfg, t) ==
    LET cache == Load(d, cfg, t)
        keep  == {h \in DOMAIN cache.Entries :
                    ~(isExpired(cfg, cache.Entries[h].Analysis, t)
                        \/ cache.Entries[h].Analysis.Resolved)}
        after == [cache EXCEPT !.Entries = [h \in keep |-> cache.Entries[h]],
                               !.Metadata.LastCleanup = t]
    IN  IF LoadErr(d) # "nil" THEN [disk |-> d, err |-> LoadErr(d)]
        ELSE IF Cardinality(keep) < Cardinality(DOMAIN cache.Entries)
        THEN [disk |-> Save(after), err |-> "nil"]
        ELSE [disk |-> d, err |-> "nil"]

\* Storage.GetUnresolvedAnalyses: the map it returns (nil, which is the empty
\* map, together with the error LoadErr(d) when Load fails)
GetUnresolvedAnalyses(d, cfg, t) ==
    LET cache == Load(d, cfg, t)
        keys  == IF LoadErr(d) # "nil" THEN {}
                 ELSE {h \in DOMAIN cache.Entries :
                        ~cache.Entries[h].Analysis.Resolved
                            /\ ~isExpired(cfg, cache.Entries[h].Analysis, t)}
    IN  [h \in keys |-> cache.Entries[h].Analysis]

\* Storage.Clear
Clear(cfg, t) == [disk |-> Save(createEmptyCache(cfg, t)), err |-> "nil"]

(***************************************************************************)
(* Manager: Fingerprinter + Storage.  Each operator gives every outcome the *)
(* call can have: the file afterwards, the content hash it computed and    *)
(* its return values.                                                      *)
(***************************************************************************)
\* Mutant of GetAnalysis: the check of Resolved is missing
GetAnalysis_ServesResolved(d, cfg, g, t) ==
    {LET r == Get(d, cfg, t, fp.contentHash)
     IN  IF ~r.found
         THEN [disk |-> r.disk, hash |-> fp.contentHash,
               analysis |-> NilAnalysis, found |-> FALSE, err |-> "nil"]
         ELSE [disk |-> r.disk, hash |-> fp.contentHash,
               analysis |-> r.analysis, found |-> TRUE, err |-> "nil"]
     : fp \in GenerateFingerprint(cfg, g, t)}

\* Mutant of GetAnalysis: the error of GenerateFingerprint is dropped and the
\* empty hash it returned is looked up
GetAnalysis_IgnoresError(d, cfg, g, t) ==
    IF GenerateFingerprintErr(g) # "nil"
    THEN {LET r == Get(d, cfg, t, "")
          IN  [disk |-> r.disk, hash |-> "", analysis |-> r.analysis,
               found |-> r.found, err |-> "nil"]}
    ELSE
    {LET r == Get(d, cfg, t, fp.contentHash)
     IN  IF ~r.found \/ r.analysis.Resolved
         THEN [disk |-> r.disk, hash |-> fp.contentHash,
               analysis |-> NilAnalysis, found |-> FALSE, err |-> "nil"]
         ELSE [disk |-> r.disk, hash |-> fp.contentHash,
               analysis |-> r.analysis, found |-> TRUE, err |-> "nil"]
     : fp \in GenerateFingerprint(cfg, g, t)}

GetAnalysis(d, cfg, g, t) ==
    IF GenerateFingerprintErr(g) # "nil"
    THEN {[disk |-> d, hash |-> "", analysis |-> NilAnalysis, found |-> FALSE,
           err |-> "failed to generate fingerprint"]}
    ELSE
    {LET r == Get(d, cfg, t, fp.contentHash)
     IN  IF ~r.found
         THEN [disk |-> r.disk, hash |-> fp.contentHash,
               analysis |-> NilAnalysis, found |-> FALSE, err |-> "nil"]
         ELSE IF r.analysis.Resolved
         THEN [disk |-> r.disk, hash |-> fp.contentHash,
               analysis |-> NilAnalysis, found |-> FALSE, err |-> "nil"]
         ELSE [disk |-> r.disk, hash |-> fp.contentHash,
               analysis |-> r.analysis, found |-> TRUE, err |-> "nil"]
     : fp \in GenerateFingerprint(cfg, g, t)}

\* Mutant of NewAnalysis: the internal key of Files is listed among the paths
NewAnalysis_ListsInternalKey(fingerprint, order, t, decision, suggestion, title) ==
    [Decision        |-> decision,
     Suggestion      |-> suggestion,
     Title           |-> title,
     Timestamp       |-> t,
     ChangesAnalyzed |-> order,
     CommitRange     |-> fingerprint.CommitRange,
     Resolved        |-> FALSE,
     ResolvedADRID   |-> 0]

\* Mutant of NewAnalysis: the result is stored as resolved
NewAnalysis_Resolved(fingerprint, order, t, decision, suggestion, title) ==
    [Decision        |-> decision,
     Suggestion      |-> suggestion,
     Title           |-> title,
     Timestamp       |-> t,
     ChangesAnalyzed |-> SelectSeq(order, LAMBDA filePath : filePath # "filtered_diff"),
     CommitRange     |-> fingerprint.CommitRange,
     Resolved        |-> TRUE,
     ResolvedADRID   |-> 0]

\* The AnalysisResult StoreAnalysis builds from a fingerprint whose Files map
\* is visited in `order`
NewAnalysis(fingerprint, order, t, decision, suggestion, title) ==
    [Decision        |-> decision,
     Suggestion      |-> suggestion,
     Title           |-> title,
     Timestamp       |-> t,
     ChangesAnalyzed |-> SelectSeq(order, LAMBDA filePath : filePath # "filtered_diff"),
     CommitRange     |-> fingerprint.CommitRange,
     Resolved        |-> FALSE,
     ResolvedADRID   |-> 0]

StoreAnalysis(d, cfg, g, t, decision, suggestion, title) ==
    IF GenerateFingerprintErr(g) # "nil"
    THEN {[disk |-> d, hash |-> "", err |-> "failed to generate fingerprint"]}
    ELSE
    UNION {UNION {{[disk |-> r.disk, hash |-> fp.contentHash, err |-> r.err]
                    : r \in Put(d, cfg, t, fp.contentHash,
                                NewAnalysis(fp.fingerprint, order, t,
                                            decision, suggestion, title))}
                  : order \in KeyOrders(fp.fingerprint.Files)}
           : fp \in GenerateFingerprint(cfg, g, t)}

ManagerMarkResolved(d, cfg, g, t, adrID) ==
    IF GenerateFingerprintErr(g) # "nil"
    THEN {[disk |-> d, hash |-> "", err |-> "failed to generate fingerprint"]}
    ELSE
    {LET r == MarkResolved(d, cfg, t, fp.contentHash, adrID)
     IN  [disk |-> r.disk, hash |-> fp.contentHash, err |-> r.err]
     : fp \in GenerateFingerprint(cfg, g, t)}

\* Mutant of ShouldAnalyze: the decision is not looked at
ShouldAnalyze_AlwaysNeeded(d, cfg, g, t) ==
    {IF r.found
     THEN [disk |-> r.disk, hash |-> r.hash, should |-> FALSE,
           reason |-> "ADR needed (cached result)", err |-> "nil"]
     ELSE [disk |-> r.disk, hash |-> r.hash, should |-> TRUE,
           reason |-> "", err |-> "nil"]
     : r \in GetAnalysis(d, cfg, g, t)}

ShouldAnalyze(d, cfg, g, t) ==
    {IF r.err # "nil"
     THEN [disk |-> r.disk, hash |-> r.hash, should |-> TRUE,
           reason |-> "", err |-> r.err]
     ELSE IF r.found
     THEN IF r.analysis.Decision = "yes"
          THEN [disk |-> r.disk, hash |-> r.hash, should |-> FALSE,
                reason |-> "ADR needed (cached result)", err |-> "nil"]
          ELSE [disk |-> r.disk, hash |-> r.hash, should |-> FALSE,
                reason |-> "No ADR needed (cached result)", err |-> "nil"]
     ELSE [disk |-> r.disk, hash |-> r.hash, should |-> TRUE,
           reason |-> "", err |-> "nil"]
     : r \in GetAnalysis(d, cfg, g, t)}

\* Manager.GetCacheStats: the map of statistics and the error
NilStats == [Nil |-> TRUE]

GetCacheStats(d, cfg, t) ==
    LET cache == Load(d, cfg, t)
    IN  IF LoadErr(d) # "nil" THEN [stats |-> NilStats, err |-> LoadErr(d)]
        ELSE [stats |->
                [total_entries      |-> Cardinality(DOMAIN cache.Entries),
                 version            |-> cache.Version,
                 last_cleanup       |-> cache.Metadata.LastCleanup,
                 resolved_entries   |-> Cardinality({h \in DOMAIN cache.Entries :
                                            cache.Entries[h].Analysis.Resolved}),
                 unresolved_entries |-> Cardinality({h \in DOMAIN cache.Entries :
                                            ~cache.Entries[h].Analysis.Resolved}),
                 max_age_days       |-> cfg.MaxAge,
                 max_entries        |-> cfg.MaxEntries],
              err |-> "nil"]

(***************************************************************************)
(* The fingerprint specification: GenerateFingerprint on a pair of working *)
(* trees.                                                                  *)
(***************************************************************************)
FPPaths == {"cmd/a.go", "pkg/b.go", "docs/adr/1.md", "README.md"}

\* Sequences of at most n distinct paths: the files a diff has sections for
PathSeqs(n) ==
    UNION {{s \in [1..k -> FPPaths] : \A i, j \in 1..k : i # j => s[i] # s[j]}
            : k \in 0..n}

FPConfigs ==
    {[MaxAge |-> 7, MaxEntries |-> 100, CleanupAfter |-> 1,
      ExcludeFiles |-> <<"*.md">>, IncludeFiles |-> <<>>,
      ADRDirs |-> <<"docs/adr">>]}

NoFile == [exists |-> FALSE]
NoCall == [op |-> "none"]

FPInit ==
    /\ config \in FPConfigs
    /\ fpIn \in [a : PathSeqs(MaxSections), b : PathSeqs(MaxSections)]
    /\ fpOut = [a |-> {}, b |-> {}]
    /\ fpPc = "input"
    /\ disk = NoFile /\ now = 0 /\ last = NoCall
    /\ git = GitMain("")

\* GenerateFingerprint on each of the two working trees, same branch and refs
FPRun ==
    /\ fpPc = "input"
    /\ fpOut' = [a |-> {r.contentHash :
                        r \in GenerateFingerprint(config, GitMain(RawDiff(fpIn.a)), now)},
                 b |-> {r.contentHash :
                        r \in GenerateFingerprint(config, GitMain(RawDiff(fpIn.b)), now)}]
    /\ fpPc' = "done"
    /\ UNCHANGED <<config, fpIn, cacheVars>>

FPNext == FPRun

SpecFP == FPInit /\ [][FPNext]_vars

\* The sections of non-excluded files, in order: what two diffs that differ
\* only in excluded files' sections have in common
RetainedSections(cfg, paths) ==
    SelectSeq(paths, LAMBDA p : shouldIncludeFile(cfg, p))

\* C1: two raw diffs that differ only in the sections of excluded files get
\* the same contentHash (same config, branch and commit range).
C1_ExcludedSectionsIgnored ==
    (fpPc = "done"
        /\ RetainedSections(config, fpIn.a) = RetainedSections(config, fpIn.b))
    => fpOut.a = fpOut.b

\* The lines of a diff that belong to sections of non-excluded files, when a
\* section starts only at a "diff --git a/X b/Y" line and Y is its file;
\* lines before the first section are kept
RECURSIVE SectionLines(_, _, _, _)
SectionLines(cfg, lines, i, keep) ==
    IF i > Len(lines) THEN <<>>
    ELSE LET line  == lines[i]
             parts == Split(line, " b/")
             k     == IF HasPrefix(line, "diff --git") /\ Len(parts) > 1
                      THEN shouldIncludeFile(cfg, parts[2])
                      ELSE keep
         IN  (IF k THEN <<line>> ELSE <<>>) \o SectionLines(cfg, lines, i + 1, k)

\* C21: filterDiff outputs the lines of the sections of non-excluded files,
\* in order, where a section starts only at a "diff --git" header: a hunk
\* line that begins with "+++" or "---" does not change the current file.
C21_FilterBySection ==
    fpPc = "done" =>
        fpOut.filtered = Join(SectionLines(config, Split(fpOut.diff, "\n"), 1, TRUE), "\n")

(***************************************************************************)
(* The filter specification: filterDiff and GenerateFingerprint applied to  *)
(* a diff whose hunks may hold lines that look like file headers, and      *)
(* GenerateFingerprint applied to the empty diff on the same branch.       *)
(***************************************************************************)
\* The hunks of a section: a changed line; an added line whose text is
\* "++ b/docs/adr/0001.md" or "++ b/cmd/a.go" (the file quotes a patch); a
\* removed line whose text is "-- old options" (a comment in SQL or Lua)
Hunks ==
    {"@@ -1 +1 @@\n-old\n+new\n",
     "@@ -1 +1,2 @@\n-old\n+++ b/docs/adr/0001.md\n+new\n",
     "@@ -1 +1,2 @@\n-old\n+++ b/cmd/a.go\n+new\n",
     "@@ -1,2 +1 @@\n--- old options\n-old\n+new\n"}

\* The section git diff prints for a file with one hunk
SectionOf(sec) ==
    "diff --git a/" \o sec.path \o " b/" \o sec.path \o "\n"
        \o "--- a/" \o sec.path \o "\n"
        \o "+++ b/" \o sec.path \o "\n"
        \o sec.hunk

RECURSIVE DiffOf(_)
DiffOf(secs) ==
    IF secs = <<>> THEN "" ELSE SectionOf(Head(secs)) \o DiffOf(Tail(secs))

\* Sequences of at most n sections of distinct files
SectionSeqs(n) ==
    UNION {{s \in [1..k -> [path : FPPaths, hunk : Hunks]] :
                \A i, j \in 1..k : i # j => s[i].path # s[j].path}
            : k \in 0..n}

FilterInit ==
    /\ config \in FPConfigs
    /\ fpIn \in [sections : SectionSeqs(MaxSections)]
    /\ fpOut = [a |-> {}, b |-> {}]
    /\ fpPc = "input"
    /\ disk = NoFile /\ now = 0 /\ last = NoCall
    /\ git = GitMain("")

FilterRun ==
    /\ fpPc = "input"
    /\ fpOut' = [diff      |-> DiffOf(fpIn.sections),
                 filtered  |-> filterDiff(config, DiffOf(fpIn.sections)),
                 hash      |-> {r.contentHash : r \in
                                GenerateFingerprint(config, GitMain(DiffOf(fpIn.sections)), now)},
                 emptyHash |-> {r.contentHash : r \in
                                GenerateFingerprint(config, GitMain(""), now)}]
    /\ fpPc' = "done"
    /\ UNCHANGED <<config, fpIn, cacheVars>>

FilterNext == FilterRun

SpecFilter == FilterInit /\ [][FilterNext]_vars

(***************************************************************************)
(* The repository specification: GenerateFingerprint called twice, tb days *)
(* apart, in two repositories that may differ in branch, references and    *)
(* working tree.                                                           *)
(***************************************************************************)
\* The filtered diff of the tree where cmd/a.go changed
SourceChanges ==
    filterDiff(CHOOSE cfg \in FPConfigs : TRUE, RawDiff(<<"cmd/a.go">>))

\* Branch names: "x", and the name made of "x", the key of the Files map and
\* the digest of SourceChanges (the model writes the digest as Sha256Hex
\* does; the real name has its 64 hexadecimal digits there)
Branches == {"x", "x" \o "filtered_diff" \o Sha256Hex(SourceChanges)}

GitWorlds ==
    {[branch |-> b, refs |-> r, diff |-> RawDiff(paths), fails |-> f] :
        b \in Branches,
        r \in UNION {SUBSET {"origin/" \o c, "HEAD~3"} : c \in Branches},
        paths \in {<<>>, <<"cmd/a.go">>, <<"README.md">>},
        f \in {"none", "branch"}}

\* getFilteredChanges for the trees of GitWorlds, evaluated once
WorldChanges ==
    [diff \in {g.diff : g \in GitWorlds} |->
        IF diff = "" THEN "" ELSE filterDiff(CHOOSE cfg \in FPConfigs : TRUE, diff)]

\* What one call of GenerateFingerprint at time t returns in repository g: the
\* content hashes it can return, with the branch, commit range and filtered
\* diff it hashed
Fingerprinted(cfg, g, t) ==
    LET commitRange == getCommitRange(g)
        fingerprint == [Files       |-> generateFileHashes(WorldChanges[g.diff]),
                        CommitRange |-> commitRange,
                        Branch      |-> getCurrentBranch(g),
                        Timestamp   |-> t]
    IN  [hashes   |-> {hashFingerprint(fingerprint, order) :
                            order \in KeyOrders(fingerprint.Files)},
         branch   |-> fingerprint.Branch,
         range    |-> commitRange,
         filtered |-> WorldChanges[g.diff],
         rangeErr |-> getCommitRangeErr(g),
         err      |-> GenerateFingerprintErr(g)]

InitGit ==
    /\ config \in FPConfigs
    /\ fpIn \in [a : GitWorlds, b : GitWorlds, tb : 0..MaxTime]
    /\ fpOut = [a |-> {}, b |-> {}]
    /\ fpPc = "input"
    /\ disk = NoFile /\ now = 0 /\ last = NoCall
    /\ git = fpIn.a

\* The first call, now, in repository fpIn.a
GitRunA ==
    /\ fpPc = "input"
    /\ fpOut' = [fpOut EXCEPT !.a = Fingerprinted(config, git, now)]
    /\ fpPc' = "called"
    /\ UNCHANGED <<config, fpIn, cacheVars>>

\* The second call, tb days later, in repository fpIn.b
GitRunB ==
    /\ fpPc = "called"
    /\ git' = fpIn.b
    /\ now' = now + fpIn.tb
    /\ fpOut' = [fpOut EXCEPT !.b = Fingerprinted(config, git', now')]
    /\ fpPc' = "done"
    /\ UNCHANGED <<config, fpIn, disk, last>>

NextGit ==
    \/ GitRunA
    \/ GitRunB

SpecGit == InitGit /\ [][NextGit]_vars

(***************************************************************************)
(* The pattern specification: matchesPattern and shouldIncludeFile applied *)
(* to one path.                                                            *)
(***************************************************************************)
DefaultCacheConfig ==
    [MaxAge |-> 7, MaxEntries |-> 100, CleanupAfter |-> 1,
     ExcludeFiles |-> <<"*.md", "*.txt", "*.rst", "**/docs/**",
                        "**/documentation/**", "**/.drduck/**", "**/.git/**">>,
     IncludeFiles |-> <<>>,
     ADRDirs |-> <<"docs/adr", "docs/adrs", "architecture/decisions", "doc/adr",
                   "adr">>]

PatternConfigs ==
    {[MaxAge |-> 7, MaxEntries |-> 100, CleanupAfter |-> 1,
      ExcludeFiles |-> ex, IncludeFiles |-> inc, ADRDirs |-> <<"docs/adr">>] :
        ex  \in {<<>>, <<"*.md">>, <<"docs/*">>, <<"vendor", "*.md">>, <<"*">>},
        inc \in {<<>>, <<"*.go">>, <<"cmd/*", "*.go">>}}
    \cup {DefaultCacheConfig}

PatternPaths ==
    {"", "docs/adr/0001.md", "docs/adr/x.go", "docs/readme.md", "docs/adr",
     "README.txt", "cmd/a.go", "cmd/a.txt", "adr_tool.go", "adr/0001.md",
     "adr", "vendor/x.go",
     "docs/guide.go", "pkg/docs/guide.go", "pkg/docs/api/guide.go",
     ".drduck/cache/analysis.json", ".git/config", "pkg/documentation/x.go"}

Patterns ==
    {"adr", "docs", "docs/adr", "cmd/a.go", "*", "*.md", "docs/*", "**/docs/**"}

InitPattern ==
    /\ config \in PatternConfigs
    /\ fpIn \in [filePath : PatternPaths, pattern : Patterns]
    /\ fpOut = [a |-> {}, b |-> {}]
    /\ fpPc = "input"
    /\ disk = NoFile /\ now = 0 /\ last = NoCall
    /\ git = GitMain("")

PatternRun ==
    /\ fpPc = "input"
    /\ fpOut' = [matches  |-> matchesPattern(fpIn.filePath, fpIn.pattern),
                 included |-> shouldIncludeFile(config, fpIn.filePath)]
    /\ fpPc' = "done"
    /\ UNCHANGED <<config, fpIn, cacheVars>>

NextPattern == PatternRun

SpecPattern == InitPattern /\ [][NextPattern]_vars

(***************************************************************************)
(* The cache as a state machine: one process calling Storage and Manager,  *)
(* the clock advancing and the working tree changing between calls.        *)
(***************************************************************************)
\* ADR ids passed to MarkResolved: one that is no valid id, one that is
ADRIDs == {0, 1}

Decisions == {"yes", "no"}

\* The results handed to Storage.Put at time t
Analyses(t) ==
    [Decision : {"yes"}, Suggestion : {"why"}, Title : {"Use X"},
     Timestamp : 0..t, ChangesAnalyzed : {<<>>}, CommitRange : {"HEAD"},
     Resolved : {FALSE}, ResolvedADRID : {0}]

\* After NewStorage: no cache file yet
InitStorage ==
    /\ config \in CacheConfigs
    /\ disk = NoFile
    /\ now = 0
    /\ git = GitMain("")
    /\ last = NoCall
    /\ fpIn = [a |-> <<>>, b |-> <<>>]
    /\ fpOut = [a |-> {}, b |-> {}]
    /\ fpPc = "idle"

\* The working trees of the Manager specification: the tree with a changed
\* source file, before and after the ADR is written
ManagerGitStates == {g \in GitStates : g.diff # ""}

\* After NewManager, in some working tree
InitManager ==
    /\ config \in CacheConfigs
    /\ disk = NoFile
    /\ now = 0
    /\ git \in ManagerGitStates
    /\ last = NoCall
    /\ fpIn = [a |-> <<>>, b |-> <<>>]
    /\ fpOut = [a |-> {}, b |-> {}]
    /\ fpPc = "idle"

\* Besides the arguments and return values, `last` notes what the call did to
\* the table (expired, evicted, removed), for Get whether it came right after
\* a successful Put of the same hash (afterPut), and for Put the hashes that
\* had an entry in a file of another format version (replaced).
DoGet ==
    \E h \in Hashes(config) :
        LET r == Get(disk, config, now, h)
        IN  /\ disk' = r.disk
            /\ last' = [op |-> "Get", hash |-> h,
                        analysis |-> r.analysis, found |-> r.found,
                        expired  |-> h \in Keys(disk) \ Keys(r.disk),
                        afterPut |-> last.op = "Put" /\ last.hash = h /\ last.err = "nil"]
            /\ UNCHANGED <<config, now, git, fpVars>>

DoPut ==
    \E h \in Hashes(config), a \in Analyses(now) :
        \E r \in Put(disk, config, now, h, a) :
            /\ disk' = r.disk
            /\ last' = [op |-> "Put", hash |-> h, analysis |-> a, err |-> r.err,
                        evicted  |-> (Keys(disk) \cup {h}) \ Keys(r.disk),
                        replaced |-> IF disk.exists /\ disk.readable /\ disk.valid
                                            /\ disk.data.version # CacheVersion
                                     THEN Keys(disk) ELSE {}]
            /\ UNCHANGED <<config, now, git, fpVars>>

DoMarkResolved ==
    \E h \in Hashes(config), id \in ADRIDs :
        LET r == MarkResolved(disk, config, now, h, id)
        IN  /\ disk' = r.disk
            /\ last' = [op |-> "MarkResolved", hash |-> h, adrID |-> id,
                        err |-> r.err]
            /\ UNCHANGED <<config, now, git, fpVars>>

DoCleanup ==
    LET r == Cleanup(disk, config, now)
    IN  /\ disk' = r.disk
        /\ last' = [op |-> "Cleanup", err |-> r.err,
                    removed |-> Keys(disk) \ Keys(r.disk)]
        /\ UNCHANGED <<config, now, git, fpVars>>

DoClear ==
    LET r == Clear(config, now)
    IN  /\ disk' = r.disk
        /\ last' = [op |-> "Clear", err |-> r.err]
        /\ UNCHANGED <<config, now, git, fpVars>>

DoGetUnresolvedAnalyses ==
    /\ last' = [op |-> "GetUnresolvedAnalyses",
                unresolved |-> GetUnresolvedAnalyses(disk, config, now),
                err        |-> LoadErr(disk)]
    /\ UNCHANGED <<config, disk, now, git, fpVars>>

DoGetCacheStats ==
    /\ LET r == GetCacheStats(disk, config, now)
       IN  last' = [op |-> "GetCacheStats", stats |-> r.stats, err |-> r.err]
    /\ UNCHANGED <<config, disk, now, git, fpVars>>

DoGetAnalysis ==
    \E r \in GetAnalysis(disk, config, git, now) :
        /\ disk' = r.disk
        /\ last' = [op |-> "GetAnalysis", hash |-> r.hash, analysis |-> r.analysis,
                    found |-> r.found, err |-> r.err]
        /\ UNCHANGED <<config, now, git, fpVars>>

DoStoreAnalysis ==
    \E decision \in Decisions :
        \E r \in StoreAnalysis(disk, config, git, now, decision, "why", "Use X") :
            /\ disk' = r.disk
            /\ last' = [op |-> "StoreAnalysis", hash |-> r.hash,
                        decision |-> decision, err |-> r.err]
            /\ UNCHANGED <<config, now, git, fpVars>>

DoManagerMarkResolved ==
    \E id \in ADRIDs :
        \E r \in ManagerMarkResolved(disk, config, git, now, id) :
            /\ disk' = r.disk
            /\ last' = [op |-> "ManagerMarkResolved", hash |-> r.hash,
                        adrID |-> id, err |-> r.err]
            /\ UNCHANGED <<config, now, git, fpVars>>

DoShouldAnalyze ==
    \E r \in ShouldAnalyze(disk, config, git, now) :
        /\ disk' = r.disk
        /\ last' = [op |-> "ShouldAnalyze", hash |-> r.hash, should |-> r.should,
                    reason |-> r.reason, err |-> r.err]
        /\ UNCHANGED <<config, now, git, fpVars>>

\* A day passes
Tick ==
    /\ now < MaxTime
    /\ now' = now + 1
    /\ last' = [op |-> "Tick"]
    /\ UNCHANGED <<config, disk, git, fpVars>>

\* The user edits, commits or writes an ADR
GitChange ==
    /\ git' \in ManagerGitStates \ {git}
    /\ last' = [op |-> "GitChange"]
    /\ UNCHANGED <<config, disk, now, fpVars>>

\* The calls on Storage
NextStorage ==
    \/ DoGet
    \/ DoPut
    \/ DoMarkResolved
    \/ DoCleanup
    \/ DoClear
    \/ DoGetUnresolvedAnalyses
    \/ DoGetCacheStats
    \/ Tick

SpecStorage == InitStorage /\ [][NextStorage]_vars

\* The calls on Manager (Cleanup, Clear and GetUnresolvedAnalyses pass through
\* to Storage)
NextManager ==
    \/ DoGetAnalysis
    \/ DoStoreAnalysis
    \/ DoManagerMarkResolved
    \/ DoShouldAnalyze
    \/ DoGetUnresolvedAnalyses
    \/ DoCleanup
    \/ DoClear
    \/ Tick
    \/ GitChange

SpecManager == InitManager /\ [][NextManager]_vars

(***************************************************************************)
(* The cache file under damage: besides the calls on Storage, the file may *)
(* be replaced from outside by one that does not parse, one that cannot be *)
(* read, or one written by an older version of the program.                *)
(***************************************************************************)
\* A file cut off in the middle of a write: json.Unmarshal rejects it
CorruptFile ==
    [exists |-> TRUE, readable |-> TRUE, valid |-> FALSE,
     data |-> [text |-> "{\n  \"version\": \"1.0\",\n  \"entr"]]

\* A file os.Stat finds and os.ReadFile cannot read (no read permission)
UnreadableFile ==
    [exists |-> TRUE, readable |-> FALSE, valid |-> FALSE, data |-> [text |-> ""]]

\* A file of an older format version, with an entry at every hash
OldVersionFile(cfg) ==
    File(Marshal(
        [Version  |-> "0.9",
         Entries  |-> [h \in Hashes(cfg) |->
                        [ContentHash |-> h,
                         Analysis    |-> [Decision |-> "yes", Suggestion |-> "why",
                                          Title |-> "Use X", Timestamp |-> 0,
                                          ChangesAnalyzed |-> <<>>,
                                          CommitRange |-> "HEAD",
                                          Resolved |-> FALSE, ResolvedADRID |-> 0]]],
         Metadata |-> [LastCleanup |-> 0, TotalSize |-> Cardinality(Hashes(cfg)),
                       MaxAge |-> cfg.MaxAge]]))

Damage ==
    /\ disk' \in {CorruptFile, UnreadableFile, OldVersionFile(config)} \ {disk}
    /\ last' = [op |-> "Damage"]
    /\ UNCHANGED <<config, now, git, fpVars>>

\* cache, err := s.Load()
DoLoad ==
    /\ last' = [op |-> "Load", cache |-> Load(disk, config, now), err |-> LoadErr(disk)]
    /\ UNCHANGED <<config, disk, now, git, fpVars>>

\* cache, err := s.Load(); if err == nil { s.Save(cache) }
DoLoadSave ==
    /\ LoadErr(disk) = "nil"
    /\ disk' = Save(Load(disk, config, now))
    /\ last' = [op |-> "LoadSave"]
    /\ UNCHANGED <<config, now, git, fpVars>>

NextFiles ==
    \/ DoGet
    \/ DoPut
    \/ DoMarkResolved
    \/ DoCleanup
    \/ DoClear
    \/ DoGetCacheStats
    \/ DoLoad
    \/ DoLoadSave
    \/ Damage
    \/ Tick

\* After NewStorage with a capacity of two entries: no cache file yet
InitFiles ==
    /\ config \in {cfg \in CacheConfigs : cfg.MaxEntries = 2}
    /\ disk = NoFile
    /\ now = 0
    /\ git = GitMain("")
    /\ last = NoCall
    /\ fpIn = [a |-> <<>>, b |-> <<>>]
    /\ fpOut = [a |-> {}, b |-> {}]
    /\ fpPc = "idle"

SpecFiles == InitFiles /\ [][NextFiles]_vars

(***************************************************************************)
(* The Manager in a working directory where git may stop answering: not a  *)
(* repository any more, no commit yet, git missing from the PATH.          *)
(***************************************************************************)
\* A git command starts failing
GitBreak ==
    /\ git.fails = "none"
    /\ \E f \in {"branch", "diff"} : git' = [git EXCEPT !.fails = f]
    /\ last' = [op |-> "GitBreak"]
    /\ UNCHANGED <<config, disk, now, fpVars>>

\* The git commands work again
GitRepair ==
    /\ git.fails # "none"
    /\ git' = [git EXCEPT !.fails = "none"]
    /\ last' = [op |-> "GitRepair"]
    /\ UNCHANGED <<config, disk, now, fpVars>>

NextGitFailure ==
    \/ DoGetAnalysis
    \/ DoStoreAnalysis
    \/ DoManagerMarkResolved
    \/ DoShouldAnalyze
    \/ Tick
    \/ GitChange
    \/ GitBreak
    \/ GitRepair

SpecGitFailure == InitManager /\ [][NextGitFailure]_vars

\* The entry at hash h stored at time ts, resolved by ADR 1 or unresolved
StoredEntry(h, ts, resolved) ==
    [ContentHash |-> h,
     Analysis    |-> [Decision |-> "yes", Suggestion |-> "why", Title |-> "Use X",
                      Timestamp |-> ts, ChangesAnalyzed |-> <<>>,
                      CommitRange |-> "HEAD", Resolved |-> resolved,
                      ResolvedADRID |-> IF resolved THEN 1 ELSE 0]]

(***************************************************************************)
(* Run-time panics.  A call panics when it writes to the nil map or reads  *)
(* a field through the nil pointer; the process ends and the file is left  *)
(* as it was.                                                              *)
(***************************************************************************)
\* Load returns a cache whose Entries is the nil map
NilMap(d) ==
    /\ d.exists /\ d.readable /\ d.valid
    /\ d.data.version = CacheVersion
    /\ IsNull(d.data.entries)

\* The hashes whose entry has the nil pointer as Analysis
NilAnalyses(cache) == {h \in DOMAIN cache.Entries : IsNil(cache.Entries[h].Analysis)}

\* Get: isExpired(entry.Analysis) reads analysis.Timestamp
GetPanics(d, cfg, t, contentHash) ==
    LoadErr(d) = "nil" /\ contentHash \in NilAnalyses(Load(d, cfg, t))

\* Put: cache.Entries[contentHash] = entry writes the map; the bubble sort of
\* cleanupOldEntries reads entry.Analysis.Timestamp of every entry once there
\* are two
PutPanics(d, cfg, t, contentHash, analysis) ==
    /\ LoadErr(d) = "nil"
    /\ \/ NilMap(d)
       \/ LET cache == Load(d, cfg, t)
              keys  == DOMAIN cache.Entries \cup {contentHash}
          IN  /\ Cardinality(keys) > cfg.MaxEntries
              /\ Cardinality(keys) >= 2
              /\ NilAnalyses(cache) \ {contentHash} # {}

\* MarkResolved: entry.Analysis.Resolved = true writes through the pointer
MarkResolvedPanics(d, cfg, t, contentHash) ==
    LoadErr(d) = "nil" /\ contentHash \in NilAnalyses(Load(d, cfg, t))

\* Cleanup, GetUnresolvedAnalyses and GetCacheStats read entry.Analysis of
\* every entry
ScanPanics(d, cfg, t) ==
    LoadErr(d) = "nil" /\ NilAnalyses(Load(d, cfg, t)) # {}

(***************************************************************************)
(* The null specification: the calls on a file of the current version      *)
(* whose "entries" is null, or that has entries whose "analysis" is null.  *)
(***************************************************************************)
\* A file whose "entries" field is null
NullEntriesFile(cfg) ==
    File([version  |-> CacheVersion,
          entries  |-> JSONNull,
          metadata |-> [last_cleanup |-> MarshalTime(0), total_size |-> 0,
                        max_age_days |-> cfg.MaxAge]])

\* Files with one entry or more, of which at least one has a null "analysis"
NullAnalysisFiles(cfg) ==
    {File([version  |-> CacheVersion,
           entries  |-> [h \in keys |->
                            [content_hash |-> h,
                             analysis |-> IF h \in nulls THEN JSONNull
                                          ELSE MarshalAnalysis(StoredEntry(h, 0, FALSE).Analysis)]],
           metadata |-> [last_cleanup |-> MarshalTime(0),
                         total_size   |-> Cardinality(keys),
                         max_age_days |-> cfg.MaxAge]]) :
        keys \in SUBSET Hashes(cfg) \ {{}}, nulls \in SUBSET Hashes(cfg) \ {{}}}

InitNull ==
    /\ config \in CacheConfigs
    /\ \/ disk = NullEntriesFile(config)
       \/ disk \in {d \in NullAnalysisFiles(config) :
                        \E h \in DOMAIN d.data.entries : IsNull(d.data.entries[h].analysis)}
    /\ now = 0
    /\ git = GitMain("")
    /\ last = NoCall
    /\ fpIn = [a |-> <<>>, b |-> <<>>]
    /\ fpOut = [a |-> {}, b |-> {}]
    /\ fpPc = "idle"

CallGet ==
    \E h \in Hashes(config) :
        IF GetPanics(disk, config, now, h)
        THEN /\ last' = [op |-> "Get", hash |-> h, panic |-> TRUE]
             /\ UNCHANGED <<config, disk, now, git, fpVars>>
        ELSE LET r == Get(disk, config, now, h)
             IN  /\ disk' = r.disk
                 /\ last' = [op |-> "Get", hash |-> h, found |-> r.found,
                             panic |-> FALSE]
                 /\ UNCHANGED <<config, now, git, fpVars>>

CallPut ==
    \E h \in Hashes(config), a \in Analyses(now) :
        IF PutPanics(disk, config, now, h, a)
        THEN /\ last' = [op |-> "Put", hash |-> h, panic |-> TRUE]
             /\ UNCHANGED <<config, disk, now, git, fpVars>>
        ELSE \E r \in Put(disk, config, now, h, a) :
                /\ disk' = r.disk
                /\ last' = [op |-> "Put", hash |-> h, err |-> r.err, panic |-> FALSE]
                /\ UNCHANGED <<config, now, git, fpVars>>

CallMarkResolved ==
    \E h \in Hashes(config) :
        IF MarkResolvedPanics(disk, config, now, h)
        THEN /\ last' = [op |-> "MarkResolved", hash |-> h, panic |-> TRUE]
             /\ UNCHANGED <<config, disk, now, git, fpVars>>
        ELSE LET r == MarkResolved(disk, config, now, h, 1)
             IN  /\ disk' = r.disk
                 /\ last' = [op |-> "MarkResolved", hash |-> h, err |-> r.err,
                             panic |-> FALSE]
                 /\ UNCHANGED <<config, now, git, fpVars>>

CallCleanup ==
    IF ScanPanics(disk, config, now)
    THEN /\ last' = [op |-> "Cleanup", panic |-> TRUE]
         /\ UNCHANGED <<config, disk, now, git, fpVars>>
    ELSE LET r == Cleanup(disk, config, now)
         IN  /\ disk' = r.disk
             /\ last' = [op |-> "Cleanup", err |-> r.err, panic |-> FALSE]
             /\ UNCHANGED <<config, now, git, fpVars>>

CallGetUnresolvedAnalyses ==
    /\ last' = [op |-> "GetUnresolvedAnalyses",
                panic |-> ScanPanics(disk, config, now)]
    /\ UNCHANGED <<config, disk, now, git, fpVars>>

CallGetCacheStats ==
    /\ last' = [op |-> "GetCacheStats", panic |-> ScanPanics(disk, config, now)]
    /\ UNCHANGED <<config, disk, now, git, fpVars>>

NextNull ==
    \/ CallGet
    \/ CallPut
    \/ CallMarkResolved
    \/ CallCleanup
    \/ CallGetUnresolvedAnalyses
    \/ CallGetCacheStats
    \/ Tick

SpecNull == InitNull /\ [][NextNull]_vars

(***************************************************************************)
(* The eviction specification: one Put into a table that earlier calls     *)
(* have left, with entries of any age, resolved or not.                    *)
(***************************************************************************)
\* The tables Put and MarkResolved can have left by time t: at most
\* MaxEntries entries, none stored after t
EvictTables(cfg, t) ==
    UNION {{[h \in keys |-> StoredEntry(h, f[h].ts, f[h].resolved)] :
                f \in [keys -> [ts : 0..t, resolved : BOOLEAN]]}
            : keys \in {k \in SUBSET Hashes(cfg) : Cardinality(k) <= cfg.MaxEntries}}

InitEvict ==
    /\ config \in CacheConfigs
    /\ now \in 0..MaxTime
    /\ \E table \in EvictTables(config, now) :
            disk = Save([createEmptyCache(config, 0) EXCEPT !.Entries = table])
    /\ fpIn \in [hash : Hashes(config), analysis : Analyses(now)]
    /\ fpOut = [a |-> {}, b |-> {}]
    /\ fpPc = "input"
    /\ git = GitMain("") /\ last = NoCall

\* Put(fpIn.hash, fpIn.analysis); fpOut keeps the table as it was
EvictRun ==
    /\ fpPc = "input"
    /\ \E r \in Put(disk, config, now, fpIn.hash, fpIn.analysis) :
        /\ disk' = r.disk
        /\ last' = [op |-> "Put", hash |-> fpIn.hash, analysis |-> fpIn.analysis,
                    err |-> r.err]
    /\ fpOut' = [before |-> Entries(disk)]
    /\ fpPc' = "done"
    /\ UNCHANGED <<config, now, git, fpIn>>

NextEvict == EvictRun

SpecEvict == InitEvict /\ [][NextEvict]_vars

(***************************************************************************)
(* The race specification: two processes each make one call on Storage.    *)
(* A call reads the file in Load and, if it saves, writes the file it      *)
(* computed from what it read; the steps of the two calls interleave.      *)
(* When both have returned, GetAnalysis is called.  fpIn holds the two     *)
(* calls, fpPc each process's position, fpOut the file as it was at the    *)
(* start, the file each process read, and the answer of GetAnalysis.       *)
(***************************************************************************)
Procs == {1, 2}

\* The calls a process makes, at time t
RaceCalls(cfg, t) ==
    {[kind |-> "Put", hash |-> h, analysis |-> StoredEntry(h, t, FALSE).Analysis]
        : h \in Hashes(cfg)}
    \cup {[kind |-> "MarkResolved", hash |-> h, adrID |-> 1] : h \in Hashes(cfg)}
    \cup {[kind |-> "Get", hash |-> h] : h \in Hashes(cfg)}

\* Every file the call can return with when it runs alone on file d
RunAlone(call, d, cfg, t) ==
    IF call.kind = "Put"
    THEN {r.disk : r \in Put(d, cfg, t, call.hash, call.analysis)}
    ELSE IF call.kind = "MarkResolved"
    THEN {MarkResolved(d, cfg, t, call.hash, call.adrID).disk}
    ELSE {Get(d, cfg, t, call.hash).disk}

\* The call writes the file: Put always, MarkResolved when the entry exists,
\* Get when it finds the entry expired
Saves(call, d, cfg, t) ==
    IF call.kind = "Put" THEN TRUE
    ELSE IF call.kind = "MarkResolved"
    THEN MarkResolved(d, cfg, t, call.hash, call.adrID).err = "nil"
    ELSE call.hash \in DOMAIN Entries(d)
            /\ isExpired(cfg, Entries(d)[call.hash].Analysis, t)

NotRead == [exists |-> FALSE]
NoAnswer == [asked |-> FALSE]

InitRace ==
    /\ config \in {cfg \in CacheConfigs : cfg.MaxEntries = 2}
    /\ now \in {0, MaxTime}
    /\ \E table \in EvictTables(config, now) :
            disk = Save([createEmptyCache(config, 0) EXCEPT !.Entries = table])
    /\ git = GitMain(RawDiff(<<"cmd/a.go">>))
    /\ last = NoCall
    /\ fpIn \in [Procs -> RaceCalls(config, now)]
    /\ fpOut = [initial |-> disk, read |-> [p \in Procs |-> NotRead],
                answer |-> NoAnswer]
    /\ fpPc = [p \in Procs |-> "start"]

\* Process p's call runs Load
RaceLoad(p) ==
    /\ fpPc[p] = "start"
    /\ fpOut' = [fpOut EXCEPT !.read[p] = disk]
    /\ fpPc' = [fpPc EXCEPT ![p] = "loaded"]
    /\ last' = [op |-> "Load", proc |-> p]
    /\ UNCHANGED <<config, disk, now, git, fpIn>>

\* Process p's call finishes on what it read, and returns
RaceFinish(p) ==
    /\ fpPc[p] = "loaded"
    /\ IF Saves(fpIn[p], fpOut.read[p], config, now)
       THEN disk' \in RunAlone(fpIn[p], fpOut.read[p], config, now)
       ELSE disk' = disk
    /\ fpPc' = [fpPc EXCEPT ![p] = "done"]
    /\ last' = [op |-> fpIn[p].kind, proc |-> p]
    /\ UNCHANGED <<config, now, git, fpIn, fpOut>>

\* Both calls have returned: GetAnalysis for the working tree
RaceGetAnalysis ==
    /\ \A p \in Procs : fpPc[p] = "done"
    /\ ~fpOut.answer.asked
    /\ \E r \in GetAnalysis(disk, config, git, now) :
        /\ disk' = r.disk
        /\ fpOut' = [fpOut EXCEPT !.answer = [asked |-> TRUE, hash |-> r.hash,
                                              found |-> r.found,
                                              analysis |-> r.analysis]]
        /\ last' = [op |-> "GetAnalysis", hash |-> r.hash, analysis |-> r.analysis,
                    found |-> r.found, err |-> r.err]
    /\ UNCHANGED <<config, now, git, fpIn, fpPc>>

NextRace ==
    \/ \E p \in Procs : RaceLoad(p)
    \/ \E p \in Procs : RaceFinish(p)
    \/ RaceGetAnalysis

SpecRace == InitRace /\ [][NextRace]_vars

(***************************************************************************)
(* The caller protocol: an invocation calls ShouldAnalyze and, when the    *)
(* answer is true, runs the analysis and calls StoreAnalysis.  fpPc is the *)
(* caller's position, fpIn the invocation under way, fpOut the invocation  *)
(* completed last and whether MarkResolved ran since.                      *)
(***************************************************************************)
NoInvocation == [done |-> FALSE]

\* The branch, the commit range and the filtered diff GenerateFingerprint
\* hashes in working tree g
ProtocolKey(cfg, g) ==
    [branch |-> getCurrentBranch(g), range |-> getCommitRange(g),
     filtered |-> ProtocolChanges[cfg][g]]

\* The record of an invocation that ShouldAnalyze started in tree g and that
\* ended in tree storeGit, after `first`, the invocation completed before it.
\* repeat: both invocations hashed the same branch, range and filtered diff
\* and MarkResolved did not run in between; sameTree: they saw the same raw
\* diff; pairStores: the calls of StoreAnalysis of the two together.
Completed(cfg, first, resolved, g, storeGit, should, stores) ==
    [done |-> TRUE, git |-> g, storeGit |-> storeGit,
     should |-> should, stores |-> stores,
     repeat     |-> /\ first.done /\ ~resolved
                    /\ ProtocolKey(cfg, first.git) = ProtocolKey(cfg, g)
                    /\ ProtocolKey(cfg, first.storeGit) = ProtocolKey(cfg, g),
     sameTree   |-> first.done /\ first.git = g,
     pairStores |-> IF first.done THEN first.stores + stores ELSE stores]

InitProtocol ==
    /\ config \in ProtocolConfigs
    /\ disk = NoFile
    /\ now = 0
    /\ git \in ProtocolGitStates
    /\ last = NoCall
    /\ fpIn = NoInvocation
    /\ fpOut = [prev |-> NoInvocation, resolved |-> FALSE]
    /\ fpPc = "idle"

\* An invocation starts: it ends here when the answer is false
ProtocolShouldAnalyze ==
    /\ fpPc = "idle"
    /\ \E r \in ShouldAnalyze(disk, config, git, now) :
        /\ disk' = r.disk
        /\ last' = [op |-> "ShouldAnalyze", hash |-> r.hash, should |-> r.should,
                    reason |-> r.reason, err |-> r.err]
        /\ IF r.should
           THEN /\ fpPc' = "analyzing"
                /\ fpIn' = [done |-> FALSE, git |-> git]
                /\ fpOut' = fpOut
           ELSE /\ fpPc' = "idle"
                /\ fpIn' = NoInvocation
                /\ fpOut' = [prev |-> Completed(config, fpOut.prev, fpOut.resolved,
                                                 git, git, FALSE, 0),
                             resolved |-> FALSE]
    /\ UNCHANGED <<config, now, git>>

\* The analysis is over and its result is stored.  time.Now() is read after
\* every stored timestamp was: on the day clock of the model the store falls
\* on a later day than the entries of the table.
ProtocolStoreAnalysis ==
    /\ fpPc = "analyzing"
    /\ \A h \in DOMAIN Entries(disk) : Entries(disk)[h].Analysis.Timestamp < now
    /\ \E decision \in Decisions :
        \E r \in StoreAnalysis(disk, config, git, now, decision, "why", "Use X") :
            /\ disk' = r.disk
            /\ last' = [op |-> "StoreAnalysis", hash |-> r.hash,
                        decision |-> decision, err |-> r.err]
            /\ fpOut' = [prev |-> Completed(config, fpOut.prev, fpOut.resolved,
                                             fpIn.git, git, TRUE, 1),
                         resolved |-> FALSE]
    /\ fpPc' = "idle"
    /\ fpIn' = NoInvocation
    /\ UNCHANGED <<config, now, git>>

\* An ADR is written for the changes of the working tree
ProtocolMarkResolved ==
    /\ \E r \in ManagerMarkResolved(disk, config, git, now, 1) :
        /\ disk' = r.disk
        /\ last' = [op |-> "ManagerMarkResolved", hash |-> r.hash,
                    adrID |-> 1, err |-> r.err]
    /\ fpOut' = [fpOut EXCEPT !.resolved = TRUE]
    /\ UNCHANGED <<config, now, git, fpIn, fpPc>>

ProtocolGitChange ==
    /\ git' \in ProtocolGitStates \ {git}
    /\ last' = [op |-> "GitChange"]
    /\ UNCHANGED <<config, disk, now, fpVars>>

NextProtocol ==
    \/ ProtocolShouldAnalyze
    \/ ProtocolStoreAnalysis
    \/ ProtocolMarkResolved
    \/ ProtocolGitChange
    \/ Tick

SpecProtocol == InitProtocol /\ [][NextProtocol]_vars

(***************************************************************************)
(* cmd/complete-adr: analyzeRecentChanges with timeout protection.  The    *)
(* caller runs analyzeRecentChanges; analyzeWithTimeout starts a goroutine *)
(* that makes the AI call and sends its result on resultChan, and waits in  *)
(* a select for the result or for the timer of time.After.  fpIn holds     *)
(* what git and the AI answer, fpPc the position of the caller (main) and  *)
(* of the goroutine (worker), fpOut the channel, the timer, the case the   *)
(* select took, and what has happened so far; now counts seconds.  The     *)
(* select arms the timer, polls the channel and parks in one step: the      *)
(* timer does not fire while the select is being entered.                  *)
(***************************************************************************)
\* analyzeRecentChanges passes 30*time.Second
Timeout == 30

\* Mutant of resultChanCap: make(chan result), a channel whose buffer holds
\* nothing
resultChanCap_Unbuffered == Len(<<>>)

\* make(chan result, 1)
resultChanCap == 1

\* What getGitChangesSummary returns: nothing, its message for no changes,
\* or the output of git diff --stat
Summaries ==
    {"", "No git changes detected", " cmd/api.go | 2 +-\n 1 file changed\n"}

\* What the collaborators answer: getGitChangesSummary (changes, summaryErr),
\* aiManager.IsAvailable, getDetailedChanges (detailedErr, truncated), and
\* aiManager.AnalyzeChanges (ai).  The summaries are lower-case, as git
\* prints the paths of this repository.
TimeoutInputs ==
    [summaryErr : BOOLEAN,
     changes : Summaries,
     available : BOOLEAN, detailedErr : BOOLEAN, truncated : BOOLEAN,
     ai : {[analysis |-> "An ADR is recommended", err |-> "nil"],
           [analysis |-> "", err |-> "claude: exit status 1"]}]

\* The number of lines of the summary that name a modified file
RECURSIVE fileCount(_, _)
fileCount(lines, i) ==
    IF i > Len(lines) THEN 0
    ELSE (IF Contains(lines[i], " |")
                /\ (Contains(lines[i], "+") \/ Contains(lines[i], "-"))
          THEN 1 ELSE 0) + fileCount(lines, i + 1)

\* generateFallbackAnalysis on a lower-case summary (the leading emoji of the
\* first line is left out)
generateFallbackAnalysis(changes, wasTruncated) ==
    LET has(words) == \E w \in words : Contains(changes, w)
        types == (IF has({"database", "migration", "sql", "schema"})
                  THEN "- Database/Schema changes\n" ELSE "")
                 \o (IF has({"api", "endpoint", "route", "controller"})
                     THEN "- API/Interface changes\n" ELSE "")
                 \o (IF has({"config", "env", "settings"})
                     THEN "- Configuration changes\n" ELSE "")
                 \o (IF has({"security", "auth", "permission"})
                     THEN "- Security-related changes\n" ELSE "")
        n == fileCount(Split(changes, "\n"), 1)
    IN  (IF wasTruncated
         THEN "Large changeset detected - providing summary analysis:\n\n"
         ELSE "AI unavailable - providing heuristic analysis:\n\n")
        \o (IF types # "" THEN "**Detected Change Types:**\n" \o types \o "\n" ELSE "")
        \o (IF n > 0
            THEN "**Scale:** " \o ToString(n) \o " files modified\n"
                 \o (IF n > 10
                     THEN "**Impact:** Likely significant - multiple files affected\n"
                     ELSE IF n > 3
                     THEN "**Impact:** Moderate - several files affected\n"
                     ELSE "**Impact:** Focused - few files affected\n")
                 \o "\n"
            ELSE "")
        \o "**Recommendation:** Given the scope of changes, documenting the architectural decisions would help team understanding."

\* generateFallbackAnalysis for the summaries of the model, evaluated once
FallbackAnalyses ==
    [changes \in Summaries |->
        [truncated \in BOOLEAN |-> generateFallbackAnalysis(changes, truncated)]]

\* wasTruncated as analyzeRecentChanges holds it after getDetailedChanges
wasTruncated(inp) == ~inp.detailedErr /\ inp.truncated

\* Mutant of analyzeRecentChangesResult: the error of analyzeWithTimeout is
\* returned to the caller with its empty analysis
analyzeRecentChangesResult_ReturnsError(inp, res) ==
    [changes |-> inp.changes, analysis |-> res.analysis, err |-> res.err]

\* What analyzeRecentChanges returns once analyzeWithTimeout has returned res
analyzeRecentChangesResult(inp, res) ==
    IF res.err # "nil"
    THEN [changes |-> inp.changes,
          analysis |-> FallbackAnalyses[inp.changes][wasTruncated(inp)],
          err |-> "nil"]
    ELSE [changes |-> inp.changes, analysis |-> res.analysis, err |-> "nil"]

TimeoutErr == "AI analysis timed out after 30s"

InitTimeout ==
    /\ config \in FPConfigs
    /\ disk = NoFile /\ now = 0 /\ last = NoCall
    /\ git = GitMain("")
    /\ fpIn \in TimeoutInputs
    /\ fpPc = [main |-> "start", worker |-> "none"]
    /\ fpOut = [chan |-> <<>>,
                timer |-> [armed |-> FALSE, deadline |-> 0, fired |-> FALSE],
                sel |-> [case |-> "none", analysis |-> "", err |-> "nil"],
                firedFirst |-> FALSE, returns |-> 0]

\* analyzeRecentChanges up to its early returns, or up to the go statement
\* of analyzeWithTimeout
AnalyzeStart ==
    /\ fpPc.main = "start"
    /\ IF fpIn.summaryErr
       THEN /\ last' = [op |-> "analyzeRecentChanges", called |-> FALSE,
                        changes |-> "Could not detect git changes - proceeding with manual input",
                        analysis |-> "Git analysis unavailable", err |-> "nil"]
            /\ fpPc' = [fpPc EXCEPT !.main = "done"]
       ELSE IF fpIn.changes = "" \/ fpIn.changes = "No git changes detected"
       THEN /\ last' = [op |-> "analyzeRecentChanges", called |-> FALSE,
                        changes |-> fpIn.changes,
                        analysis |-> "No significant changes detected", err |-> "nil"]
            /\ fpPc' = [fpPc EXCEPT !.main = "done"]
       ELSE IF ~fpIn.available
       THEN /\ last' = [op |-> "analyzeRecentChanges", called |-> FALSE,
                        changes |-> fpIn.changes,
                        analysis |-> "AI analysis not available - using change detection only",
                        err |-> "nil"]
            /\ fpPc' = [fpPc EXCEPT !.main = "done"]
       ELSE /\ last' = [op |-> "go"]
            /\ fpPc' = [main |-> "select", worker |-> "running"]
    /\ UNCHANGED <<config, disk, now, git, fpIn, fpOut>>

\* The select statement is entered: time.After arms the timer; a result that
\* is in the channel, or that the goroutine is blocked sending, is received;
\* otherwise the caller waits
SelectEnter ==
    /\ fpPc.main = "select"
    /\ LET armed == [armed |-> TRUE, deadline |-> now + Timeout, fired |-> FALSE]
       IN  IF fpOut.chan # <<>>
           THEN /\ fpOut' = [fpOut EXCEPT !.timer = armed, !.chan = Tail(@),
                                !.sel = [case |-> "result",
                                         analysis |-> Head(fpOut.chan).analysis,
                                         err |-> Head(fpOut.chan).err]]
                /\ fpPc' = [fpPc EXCEPT !.main = "selected"]
           ELSE IF fpPc.worker = "blocked"
           THEN /\ fpOut' = [fpOut EXCEPT !.timer = armed,
                                !.sel = [case |-> "result",
                                         analysis |-> fpIn.ai.analysis,
                                         err |-> fpIn.ai.err]]
                /\ fpPc' = [main |-> "selected", worker |-> "exited"]
           ELSE /\ fpOut' = [fpOut EXCEPT !.timer = armed]
                /\ fpPc' = [fpPc EXCEPT !.main = "waiting"]
    /\ last' = [op |-> "select"]
    /\ UNCHANGED <<config, disk, now, git, fpIn>>

\* aiManager.AnalyzeChanges returns inp the goroutine, after any time
AICallReturns ==
    /\ fpPc.worker = "running"
    /\ fpPc' = [fpPc EXCEPT !.worker = "send"]
    /\ fpOut' = [fpOut EXCEPT !.firedFirst = fpOut.timer.fired]
    /\ last' = [op |-> "AnalyzeChanges"]
    /\ UNCHANGED <<config, disk, now, git, fpIn>>

\* resultChan <- result{analysis, err}: handed to the waiting select, put inp
\* the buffer, or blocked when there is neither
WorkerSend ==
    /\ fpPc.worker = "send"
    /\ IF fpPc.main = "waiting"
       THEN /\ fpOut' = [fpOut EXCEPT !.sel = [case |-> "result",
                                               analysis |-> fpIn.ai.analysis,
                                               err |-> fpIn.ai.err]]
            /\ fpPc' = [main |-> "selected", worker |-> "exited"]
       ELSE IF Len(fpOut.chan) < resultChanCap
       THEN /\ fpOut' = [fpOut EXCEPT !.chan = Append(@, fpIn.ai)]
            /\ fpPc' = [fpPc EXCEPT !.worker = "exited"]
       ELSE /\ fpOut' = fpOut
            /\ fpPc' = [fpPc EXCEPT !.worker = "blocked"]
    /\ last' = [op |-> "send"]
    /\ UNCHANGED <<config, disk, now, git, fpIn>>

\* The timer of time.After fires at its deadline; a waiting select takes it
TimerFires ==
    /\ fpOut.timer.armed /\ ~fpOut.timer.fired
    /\ now >= fpOut.timer.deadline
    /\ IF fpPc.main = "waiting"
       THEN /\ fpOut' = [fpOut EXCEPT !.timer.fired = TRUE,
                            !.sel = [case |-> "timeout", analysis |-> "",
                                     err |-> TimeoutErr]]
            /\ fpPc' = [fpPc EXCEPT !.main = "selected"]
       ELSE /\ fpOut' = [fpOut EXCEPT !.timer.fired = TRUE]
            /\ fpPc' = fpPc
    /\ last' = [op |-> "timer"]
    /\ UNCHANGED <<config, disk, now, git, fpIn>>

\* analyzeWithTimeout returns what the select took, and analyzeRecentChanges
\* returns
AnalyzeReturn ==
    /\ fpPc.main = "selected"
    /\ LET res == [analysis |-> fpOut.sel.analysis, err |-> fpOut.sel.err]
           r   == analyzeRecentChangesResult(fpIn, res)
       IN  last' = [op |-> "analyzeRecentChanges", called |-> TRUE,
                    changes |-> r.changes, analysis |-> r.analysis, err |-> r.err]
    /\ fpOut' = [fpOut EXCEPT !.returns = @ + 1]
    /\ fpPc' = [fpPc EXCEPT !.main = "done"]
    /\ UNCHANGED <<config, disk, now, git, fpIn>>

\* A second passes while the timer runs
TimeoutTick ==
    /\ fpOut.timer.armed /\ ~fpOut.timer.fired
    /\ now < fpOut.timer.deadline
    /\ now' = now + 1
    /\ UNCHANGED <<config, disk, git, last, fpVars>>

NextTimeout ==
    \/ AnalyzeStart
    \/ SelectEnter
    \/ AICallReturns
    \/ WorkerSend
    \/ TimerFires
    \/ AnalyzeReturn
    \/ TimeoutTick

SpecTimeout == InitTimeout /\ [][NextTimeout]_vars

\* The caller, the timer and the send are scheduled and time passes; the AI
\* call need not return
SpecTimeoutFair ==
    /\ SpecTimeout
    /\ WF_vars(AnalyzeStart \/ SelectEnter \/ AnalyzeReturn \/ TimerFires
                    \/ TimeoutTick \/ WorkerSend)

(***************************************************************************)
(* ADR status commands: set-status, accept and edit --status on one ADR.   *)
(* Here disk is the ADR file: whether it exists, whether it starts with a  *)
(* YAML front matter that parses, and the status parseADRFile reads from   *)
(* it.  last holds the command, the file it found and what it returned.    *)
(***************************************************************************)
StatusDraft == "Draft"
StatusInProgress == "In Progress"
StatusAccepted == "Accepted"
StatusSuperseded == "Superseded"
StatusRejected == "Rejected"

\* parseStatus on an argument in lower case without surrounding space
parseStatus(statusStr) ==
    IF statusStr = "draft" THEN [status |-> StatusDraft, err |-> "nil"]
    ELSE IF statusStr \in {"in-progress", "inprogress", "progress"}
    THEN [status |-> StatusInProgress, err |-> "nil"]
    ELSE IF statusStr \in {"accepted", "accept"}
    THEN [status |-> StatusAccepted, err |-> "nil"]
    ELSE IF statusStr \in {"rejected", "reject"}
    THEN [status |-> StatusRejected, err |-> "nil"]
    ELSE IF statusStr \in {"superseded", "supersede"}
    THEN [status |-> StatusSuperseded, err |-> "nil"]
    ELSE [status |-> "", err |-> "unknown status '" \o statusStr \o "'"]

\* Mutant of validTransitions: a superseded ADR can be reconsidered like a
\* rejected one
validTransitions_SupersededReopens ==
    [s \in {StatusDraft, StatusInProgress, StatusAccepted, StatusRejected,
            StatusSuperseded} |->
        IF s = StatusDraft
        THEN {StatusInProgress, StatusAccepted, StatusRejected}
        ELSE IF s = StatusInProgress
        THEN {StatusDraft, StatusAccepted, StatusRejected}
        ELSE IF s = StatusAccepted THEN {StatusSuperseded}
        ELSE {StatusDraft, StatusInProgress}]

validTransitions ==
    [s \in {StatusDraft, StatusInProgress, StatusAccepted, StatusRejected,
            StatusSuperseded} |->
        IF s = StatusDraft
        THEN {StatusInProgress, StatusAccepted, StatusRejected}
        ELSE IF s = StatusInProgress
        THEN {StatusDraft, StatusAccepted, StatusRejected}
        ELSE IF s = StatusAccepted THEN {StatusSuperseded}
        ELSE IF s = StatusRejected THEN {StatusDraft, StatusInProgress}
        ELSE {}]

\* The error of validateStatusTransition
validateStatusTransition(currentStatus, newStatus) ==
    IF currentStatus \notin DOMAIN validTransitions
    THEN "unknown current status: " \o currentStatus
    ELSE IF newStatus \in validTransitions[currentStatus] THEN "nil"
    ELSE "cannot transition from " \o currentStatus \o " to " \o newStatus

\* Manager.UpdateADRStatus: the file it leaves and its error
UpdateADRStatus(file, newStatus) ==
    IF ~file.exists THEN [file |-> file, err |-> "ADR with ID 1 not found"]
    ELSE IF file.frontMatter
    THEN [file |-> [file EXCEPT !.status = newStatus], err |-> "nil"]
    ELSE [file |-> file,
          err |-> "ADR file does not contain front matter - cannot update status"]

runSetStatus(file, arg) ==
    LET p == parseStatus(arg)
    IN  IF p.err # "nil" THEN [file |-> file, err |-> "invalid status: " \o p.err]
        ELSE IF ~file.exists
        THEN [file |-> file, err |-> "ADR not found: ADR with ID 1 not found"]
        ELSE IF file.status = p.status THEN [file |-> file, err |-> "nil"]
        ELSE IF validateStatusTransition(file.status, p.status) # "nil"
        THEN [file |-> file,
              err |-> "invalid status transition: "
                        \o validateStatusTransition(file.status, p.status)]
        ELSE IF p.status = StatusAccepted THEN [file |-> file, err |-> "nil"]
        ELSE LET u == UpdateADRStatus(file, p.status)
             IN  IF u.err # "nil"
                 THEN [file |-> u.file, err |-> "failed to update status: " \o u.err]
                 ELSE u

\* runAccept with --force or not, on content that validateADRContent finds
\* complete or not
runAccept(file, forceAccept, isComplete) ==
    IF ~file.exists
    THEN [file |-> file, err |-> "ADR not found: ADR with ID 1 not found"]
    ELSE IF file.status = StatusAccepted THEN [file |-> file, err |-> "nil"]
    ELSE IF ~forceAccept /\ ~isComplete
    THEN [file |-> file, err |-> "ADR is not ready for acceptance"]
    ELSE LET u == UpdateADRStatus(file, StatusAccepted)
         IN  IF u.err # "nil"
             THEN [file |-> u.file, err |-> "failed to accept ADR: " \o u.err]
             ELSE u

\* runEdit when the editor leaves the file as it is and exits with success
runEdit(file, editStatus) ==
    IF ~file.exists
    THEN [file |-> file, err |-> "ADR not found: ADR with ID 1 not found"]
    ELSE IF editStatus = "" THEN [file |-> file, err |-> "nil"]
    ELSE LET p == parseStatus(editStatus)
         IN  IF p.err # "nil"
             THEN [file |-> file, err |-> "invalid status: " \o p.err]
             ELSE LET u == UpdateADRStatus(file, p.status)
                  IN  IF u.err # "nil"
                      THEN [file |-> u.file,
                            err |-> "failed to update status: " \o u.err]
                      ELSE u

\* The status arguments given on the command line ("" for no --status flag)
StatusArgs ==
    {"draft", "in-progress", "progress", "accepted", "rejected", "superseded",
     "done"}

\* An ADR file with any status in it, with or without front matter, or none
InitStatus ==
    /\ config \in FPConfigs
    /\ now = 0 /\ last = NoCall
    /\ git = GitMain("")
    /\ fpIn = [a |-> <<>>, b |-> <<>>]
    /\ fpOut = [a |-> {}, b |-> {}]
    /\ fpPc = "idle"
    /\ disk \in [exists : {TRUE}, frontMatter : BOOLEAN,
                 status : {StatusDraft, StatusInProgress, StatusAccepted,
                           StatusSuperseded, StatusRejected, "Proposed"}]
                \cup {[exists |-> FALSE, frontMatter |-> FALSE, status |-> ""]}

\* drduck set-status 1 <arg>
DoSetStatus ==
    \E arg \in StatusArgs :
        LET r == runSetStatus(disk, arg)
        IN  /\ disk' = r.file
            /\ last' = [op |-> "set-status", before |-> disk, arg |-> arg,
                        err |-> r.err]
            /\ UNCHANGED <<config, now, git, fpVars>>

\* drduck accept 1 [--force]
DoAccept ==
    \E forceAccept \in BOOLEAN, isComplete \in BOOLEAN :
        LET r == runAccept(disk, forceAccept, isComplete)
        IN  /\ disk' = r.file
            /\ last' = [op |-> "accept", before |-> disk, arg |-> "accepted",
                        err |-> r.err]
            /\ UNCHANGED <<config, now, git, fpVars>>

\* drduck edit 1 [--status <arg>]
DoEdit ==
    \E arg \in StatusArgs \cup {""} :
        LET r == runEdit(disk, arg)
        IN  /\ disk' = r.file
            /\ last' = [op |-> "edit", before |-> disk, arg |-> arg,
                        err |-> r.err]
            /\ UNCHANGED <<config, now, git, fpVars>>

NextStatus ==
    \/ DoSetStatus
    \/ DoAccept
    \/ DoEdit

SpecStatus == InitStatus /\ [][NextStatus]_vars

(***************************************************************************)
(* hooks.Validator: the pre-commit and pre-push checks.  fpIn holds what   *)
(* the collaborators answer during one run of a hook: the ADR directory    *)
(* (listErr, the statuses of its ADRs), the AI provider and git (available,*)
(* changesErr, changes, aiErr, response), the user and the complete-adr    *)
(* command (askErr, shouldCreate, createSuccess).  last holds the          *)
(* ValidationResult, without the texts of the AI.                          *)
(***************************************************************************)
ValidatorInputs ==
    [listErr : BOOLEAN,
     statuses : UNION {[1..k -> {StatusDraft, StatusInProgress, StatusAccepted}]
                        : k \in 0..2},
     available : BOOLEAN, changesErr : BOOLEAN, changes : {"", "diff"},
     aiErr : BOOLEAN,
     response : {"**decision**: yes\nsuggested adr title: use x",
                 "**decision**: no"},
     askErr : BOOLEAN, shouldCreate : BOOLEAN, createSuccess : BOOLEAN]

\* Mutant of getDraftADRs: a failure of List is taken for an empty directory
getDraftADRs_IgnoresError(env) ==
    [drafts |-> IF env.listErr THEN <<>>
                ELSE SelectSeq(env.statuses, LAMBDA s : s = StatusDraft),
     err |-> "nil"]

\* Validator.getDraftADRs: the drafts (by status) and the error
getDraftADRs(env) ==
    IF env.listErr
    THEN [drafts |-> <<>>, err |-> "failed to read ADR directory"]
    ELSE [drafts |-> SelectSeq(env.statuses, LAMBDA s : s = StatusDraft),
          err |-> "nil"]

\* Validator.analyzeChangesForADR on a response in lower case: needsADR and
\* the error
analyzeChangesForADR(env) ==
    IF ~env.available
    THEN [needsADR |-> FALSE, err |-> "AI provider not available"]
    ELSE IF env.changesErr
    THEN [needsADR |-> FALSE, err |-> "failed to get git changes"]
    ELSE IF env.changes = "" THEN [needsADR |-> FALSE, err |-> "nil"]
    ELSE IF env.aiErr THEN [needsADR |-> FALSE, err |-> "exit status 1"]
    ELSE [needsADR |-> \/ Contains(env.response, "**decision**: yes")
                       \/ Contains(env.response, "decision**: yes")
                       \/ Contains(env.response, "decision: yes"),
          err |-> "nil"]

ValidatePreCommit(env) ==
    LET d == getDraftADRs(env)
    IN  IF d.err # "nil"
        THEN [ShouldBlock |-> FALSE, DraftADRs |-> <<>>, NeedsADR |-> FALSE,
              Message |-> "Could not check ADR status"]
        ELSE IF Len(d.drafts) = 0
        THEN [ShouldBlock |-> FALSE, DraftADRs |-> d.drafts, NeedsADR |-> FALSE,
              Message |-> "All ADRs are up to date"]
        ELSE [ShouldBlock |-> FALSE, DraftADRs |-> d.drafts, NeedsADR |-> FALSE,
              Message |-> "Found draft ADRs"]

ValidatePrePush(env) ==
    LET d == getDraftADRs(env)
        a == analyzeChangesForADR(env)
    IN  IF d.err # "nil"
        THEN [ShouldBlock |-> TRUE, DraftADRs |-> <<>>, NeedsADR |-> FALSE,
              Message |-> "Could not check ADR status"]
        ELSE IF Len(d.drafts) > 0
        THEN [ShouldBlock |-> TRUE, DraftADRs |-> d.drafts, NeedsADR |-> FALSE,
              Message |-> "Cannot push with draft ADRs"]
        ELSE IF a.err # "nil"
        THEN [ShouldBlock |-> FALSE, DraftADRs |-> d.drafts, NeedsADR |-> FALSE,
              Message |-> "Could not analyze changes with AI"]
        ELSE IF a.needsADR
        THEN IF ~env.askErr /\ env.shouldCreate
             THEN IF env.createSuccess
                  THEN [ShouldBlock |-> FALSE, DraftADRs |-> d.drafts,
                        NeedsADR |-> TRUE, Message |-> "ADR created successfully"]
                  ELSE [ShouldBlock |-> TRUE, DraftADRs |-> d.drafts,
                        NeedsADR |-> TRUE, Message |-> "ADR creation failed"]
             ELSE [ShouldBlock |-> TRUE, DraftADRs |-> d.drafts,
                   NeedsADR |-> TRUE,
                   Message |-> "These changes appear to need an ADR"]
        ELSE [ShouldBlock |-> FALSE, DraftADRs |-> d.drafts, NeedsADR |-> FALSE,
              Message |-> "All checks passed"]

InitValidator ==
    /\ config \in FPConfigs
    /\ disk = NoFile /\ now = 0 /\ last = NoCall
    /\ git = GitMain("")
    /\ fpIn \in ValidatorInputs
    /\ fpOut = [a |-> {}, b |-> {}]
    /\ fpPc = "idle"

\* git commit runs the pre-commit hook
DoValidatePreCommit ==
    /\ last' = [op |-> "ValidatePreCommit", result |-> ValidatePreCommit(fpIn)]
    /\ UNCHANGED <<config, disk, now, git, fpVars>>

\* git push runs the pre-push hook
DoValidatePrePush ==
    /\ last' = [op |-> "ValidatePrePush", result |-> ValidatePrePush(fpIn)]
    /\ UNCHANGED <<config, disk, now, git, fpVars>>

NextValidator ==
    \/ DoValidatePreCommit
    \/ DoValidatePrePush

SpecValidator == InitValidator /\ [][NextValidator]_vars

(***************************************************************************)
(* Properties.  They read the table, the clock and the configuration       *)
(* directly, not through the operators of Storage.                         *)
(***************************************************************************)
Table == Entries(disk)
TableAfter == Entries(disk')

\* The analysis at hash h is older than MaxAge days at time t
TooOld(analysis, t) == t - analysis.Timestamp > config.MaxAge

C3_PutThenGet ==
    [][(last.op = "Put" /\ last.err = "nil"
            /\ last'.op = "Get" /\ last'.hash = last.hash)
        => (last'.found /\ last'.analysis = last.analysis)]_vars

\* C3 amended: the same when the result is not older than MaxAge and the
\* Put did not evict the new entry itself; it does not when MaxEntries >= 1
\* and the result's timestamp is later than that of every other entry.
C3_PutThenGetFresh ==
    [][/\ (last.op = "Put" /\ last.err = "nil"
            /\ last'.op = "Get" /\ last'.hash = last.hash
            /\ ~TooOld(last.analysis, now)
            /\ last.hash \notin last.evicted)
          => (last'.found /\ last'.analysis = last.analysis)
       /\ (last'.op = "Put" /\ config.MaxEntries >= 1
            /\ \A k \in DOMAIN Table \ {last'.hash} :
                    Table[k].Analysis.Timestamp < last'.analysis.Timestamp)
          => (last'.err = "nil" /\ last'.hash \notin last'.evicted
                /\ last'.hash \in DOMAIN TableAfter
                /\ TableAfter[last'.hash].Analysis = last'.analysis)
      ]_vars

\* A Get right after a Put into a full table that returned the stored result
C3_Witness ==
    /\ last.op = "Get"
    /\ last.afterPut
    /\ last.found
    /\ Cardinality(DOMAIN Table) = config.MaxEntries

\* C4: a Put that takes the table over MaxEntries leaves exactly MaxEntries
\* entries, the evicted ones no newer than any retained one and the retained
\* ones as they were; with MaxEntries = 2 and a third, newest hash put after
\* two of different age, the older of the two goes and the other two stay.
C4_OldestEvictedFirst ==
    [][last'.op = "Put" =>
        LET h       == last'.hash
            new     == [ContentHash |-> h, Analysis |-> last'.analysis]
            keys    == DOMAIN Table \cup {h}
            m       == [k \in keys |-> IF k = h THEN new ELSE Table[k]]
            evicted == keys \ DOMAIN TableAfter
        IN  Cardinality(keys) > config.MaxEntries =>
                /\ Cardinality(DOMAIN TableAfter) = config.MaxEntries
                /\ DOMAIN TableAfter \subseteq keys
                /\ \A k \in DOMAIN TableAfter : TableAfter[k] = m[k]
                /\ \A e \in evicted, k \in DOMAIN TableAfter :
                        m[e].Analysis.Timestamp <= m[k].Analysis.Timestamp
                /\ (config.MaxEntries = 2 /\ h \notin DOMAIN Table
                        /\ \A k \in DOMAIN Table :
                                m[k].Analysis.Timestamp < new.Analysis.Timestamp)
                    => \A a, b \in DOMAIN Table :
                            m[a].Analysis.Timestamp < m[b].Analysis.Timestamp
                            => (evicted = {a} /\ DOMAIN TableAfter = {b, h})
      ]_vars

\* The third of three hashes put in increasing timestamp order with
\* MaxEntries = 2: the first was evicted, the last two are in the table
C4_Witness ==
    /\ last.op = "Put"
    /\ config.MaxEntries = 2
    /\ Cardinality(last.evicted) = 1
    /\ Cardinality(DOMAIN Table) = 2
    /\ last.hash \in DOMAIN Table
    /\ \E k \in DOMAIN Table :
            /\ Table[k].Analysis.Timestamp < last.analysis.Timestamp
            /\ Table[k].Analysis.Timestamp > 0

C6_CleanupRemovesResolvedAndExpired ==
    [][(last'.op = "Cleanup" /\ last'.err = "nil") =>
        /\ \A h \in DOMAIN TableAfter :
                /\ ~TableAfter[h].Analysis.Resolved
                /\ ~TooOld(TableAfter[h].Analysis, now)
        /\ \A h \in DOMAIN Table :
                (~Table[h].Analysis.Resolved /\ ~TooOld(Table[h].Analysis, now))
                => (h \in DOMAIN TableAfter /\ TableAfter[h] = Table[h])
      ]_vars

\* A Cleanup that removed an entry and kept another
C6_Witness ==
    /\ last.op = "Cleanup"
    /\ last.removed # {}
    /\ DOMAIN Table # {}

\* C7: MarkResolved of a hash with no entry returns the not-found error and
\* leaves the file as it was.
C7_MarkResolvedMissing ==
    [][(last'.op = "MarkResolved" /\ last'.hash \notin DOMAIN Table)
        => (last'.err = "cache entry not found" /\ disk' = disk)]_vars

\* A MarkResolved that failed on a table holding other entries
C7_Witness ==
    /\ last.op = "MarkResolved"
    /\ last.err = "cache entry not found"
    /\ DOMAIN Table # {}

\* C8: every resolved entry of the file has a positive ResolvedADRID.
C8_ResolvedHasPositiveID ==
    \A h \in DOMAIN Table :
        Table[h].Analysis.Resolved => Table[h].Analysis.ResolvedADRID > 0

\* C9: an entry that is resolved at a hash is not unresolved at that hash
\* after the next call, unless the call removed it.
C9_ResolvedStaysResolved ==
    [][\A h \in DOMAIN Table :
        (Table[h].Analysis.Resolved /\ h \in DOMAIN TableAfter)
        => TableAfter[h].Analysis.Resolved]_vars

Discarded(d) ==
    ~d.exists \/ (d.readable /\ (~d.valid \/ d.data.version # CacheVersion))

C15_DamagedFileRecovered ==
    [][(disk.exists /\ (~disk.readable \/ ~disk.valid)) =>
        /\ last'.op = "Get" => ~last'.found
        /\ last'.op = "Put" => (last'.err = "nil" /\ DOMAIN TableAfter \subseteq {last'.hash})
        /\ last'.op = "MarkResolved" => last'.err = "cache entry not found"
        /\ last'.op = "Cleanup" => last'.err = "nil"
        /\ last'.op = "GetCacheStats" =>
                (last'.err = "nil" /\ last'.stats.total_entries = 0)]_vars

C17_GitFailure ==
    [][(git.fails # "none"
            /\ last'.op \in {"GetAnalysis", "StoreAnalysis",
                             "ManagerMarkResolved", "ShouldAnalyze"})
        => /\ last'.err # "nil"
           /\ disk' = disk
           /\ last'.op = "GetAnalysis" => ~last'.found
           /\ last'.op = "ShouldAnalyze" => (last'.should /\ last'.reason = "")
      ]_vars

\* ShouldAnalyze has answered true with an error while the table held an
\* entry that was neither resolved nor expired
C17_Witness ==
    /\ last.op = "ShouldAnalyze"
    /\ git.fails # "none"
    /\ last.should /\ last.err # "nil"
    /\ \E h \in DOMAIN Table :
            ~Table[h].Analysis.Resolved /\ ~TooOld(Table[h].Analysis, now)

\* The range the three tiers prescribe in repository g.  The remote branch
\* reference exists when the branch is known and origin/<branch> is a
\* reference of the repository.
TierRange(g) ==
    IF g.fails # "branch" /\ ("origin/" \o g.branch) \in g.refs
    THEN "origin/" \o g.branch \o "..HEAD"
    ELSE IF "HEAD~3" \in g.refs THEN "HEAD~3..HEAD"
    ELSE "HEAD"

\* C18: getCommitRange returns origin/<branch>..HEAD when the remote branch
\* reference exists, otherwise HEAD~3..HEAD when HEAD~3 resolves, otherwise
\* HEAD, and never an error.
C18_CommitRangePriority ==
    fpPc = "done" =>
        /\ fpOut.a.range = TierRange(fpIn.a) /\ fpOut.a.rangeErr = "nil"
        /\ fpOut.b.range = TierRange(fpIn.b) /\ fpOut.b.rangeErr = "nil"

\* Both references exist in the first repository and the remote branch won;
\* only HEAD~3 exists in the second
C18_Witness ==
    /\ fpPc = "done"
    /\ fpIn.a.fails = "none"
    /\ {"origin/" \o fpIn.a.branch, "HEAD~3"} \subseteq fpIn.a.refs
    /\ fpOut.a.range = "origin/" \o fpIn.a.branch \o "..HEAD"
    /\ fpIn.b.refs = {"HEAD~3"}
    /\ fpOut.b.range = "HEAD~3..HEAD"

\* C12: two calls of GenerateFingerprint that see the same filtered diff, the
\* same commit range and the same branch return the same contentHash,
\* whatever the time of each call and the iteration order of the Files map.
C12_FingerprintDeterministic ==
    (/\ fpPc = "done"
     /\ fpOut.a.err = "nil" /\ fpOut.b.err = "nil"
     /\ fpOut.a.filtered = fpOut.b.filtered
     /\ fpOut.a.range = fpOut.b.range
     /\ fpOut.a.branch = fpOut.b.branch)
    => /\ fpOut.a.hashes = fpOut.b.hashes
       /\ Cardinality(fpOut.a.hashes) = 1

\* The two calls were days apart, in working trees whose raw diffs differ
\* and filter to the same text, and they returned one hash
C12_Witness ==
    /\ fpPc = "done"
    /\ fpOut.a.err = "nil" /\ fpOut.b.err = "nil"
    /\ fpIn.tb > 0
    /\ fpIn.a.diff # fpIn.b.diff
    /\ fpOut.a.filtered = fpOut.b.filtered
    /\ fpOut.a.range = fpOut.b.range
    /\ fpOut.a.branch = fpOut.b.branch
    /\ fpOut.a.hashes = fpOut.b.hashes

\* C13: two fingerprints that differ in the commit range, the branch or the
\* filtered diff never have a contentHash in common (Sha256Hex is injective).
C13_FingerprintInjective ==
    (/\ fpPc = "done"
     /\ fpOut.a.err = "nil" /\ fpOut.b.err = "nil"
     /\ \/ fpOut.a.filtered # fpOut.b.filtered
        \/ fpOut.a.range # fpOut.b.range
        \/ fpOut.a.branch # fpOut.b.branch)
    => fpOut.a.hashes \cap fpOut.b.hashes = {}

\* The path lies under a record directory of cfg
UnderADRDir(cfg, filePath) ==
    \E i \in DOMAIN cfg.ADRDirs : HasPrefix(filePath, cfg.ADRDirs[i] \o "/")

MatchesExclude(cfg, filePath) ==
    \E i \in DOMAIN cfg.ExcludeFiles : matchesPattern(filePath, cfg.ExcludeFiles[i])

MatchesInclude(cfg, filePath) ==
    \E i \in DOMAIN cfg.IncludeFiles : matchesPattern(filePath, cfg.IncludeFiles[i])

\* C19: shouldIncludeFile excludes a path exactly when the path lies under a
\* record directory or matches an exclude pattern and, if there are include
\* patterns, it also matches none of them; every other path is retained.
C19_ExclusionRule ==
    fpPc = "done" =>
        (~fpOut.included <=>
            /\ UnderADRDir(config, fpIn.filePath) \/ MatchesExclude(config, fpIn.filePath)
            /\ config.IncludeFiles # <<>> => ~MatchesInclude(config, fpIn.filePath))

\* C19, amended: shouldIncludeFile excludes a path exactly when the path is
\* not empty and it lies under a record directory, or matches an exclude
\* pattern, or there are include patterns and it matches none of them.
C19_ExclusionRuleAmended ==
    fpPc = "done" =>
        (~fpOut.included <=>
            /\ fpIn.filePath # ""
            /\ \/ UnderADRDir(config, fpIn.filePath)
               \/ MatchesExclude(config, fpIn.filePath)
               \/ config.IncludeFiles # <<>> /\ ~MatchesInclude(config, fpIn.filePath))

\* A path under the record directory that matches an include pattern has been
\* excluded
C19_Witness ==
    /\ fpPc = "done"
    /\ UnderADRDir(config, fpIn.filePath)
    /\ config.IncludeFiles # <<>> /\ MatchesInclude(config, fpIn.filePath)
    /\ ~fpOut.included

\* C20: for a pattern without "*", matchesPattern is true exactly when the
\* path equals the pattern or starts with the pattern followed by "/".
C20_PrefixAtBoundary ==
    (fpPc = "done" /\ ~Contains(fpIn.pattern, "*")) =>
        (fpOut.matches <=>
            \/ fpIn.filePath = fpIn.pattern
            \/ HasPrefix(fpIn.filePath, fpIn.pattern \o "/"))

SourceHash ==
    CHOOSE h \in {fp.contentHash :
                    fp \in GenerateFingerprint(config, GitMain(RawDiff(<<"cmd/a.go">>)), 0)}
            : TRUE

\* C23: when the table holds the entry StoreAnalysis stored for the tree
\* where cmd/a.go changed, and the tree has since gained only an ADR under
\* docs/adr (same branch and range), Manager.MarkResolved computes the hash of
\* that entry and marks it resolved.
C23_ResolveAfterADRWritten ==
    [][(/\ last'.op = "ManagerMarkResolved"
        /\ git.diff = RawDiff(<<"cmd/a.go", "docs/adr/1.md">>)
        /\ SourceHash \in DOMAIN Table)
       => /\ last'.err = "nil"
          /\ last'.hash = SourceHash
          /\ TableAfter[SourceHash].Analysis.Resolved]_vars

\* C24: from an absent file, whatever Put, Get, MarkResolved, Cleanup and
\* Clear calls one process makes, the persisted table never holds more than
\* MaxEntries entries.
C24_TableWithinCapacity ==
    Cardinality(DOMAIN Table) <= config.MaxEntries

\* A Put into a full table has evicted an entry and left the table full
C24_Witness ==
    /\ last.op = "Put" /\ last.err = "nil"
    /\ last.evicted # {}
    /\ config.MaxEntries >= 1
    /\ Cardinality(DOMAIN Table) = config.MaxEntries

\* C26: a MarkResolved at a hash that has an entry, be it expired or resolved
\* already, succeeds; it sets Resolved and ResolvedADRID of that entry and
\* leaves its other fields, every other entry and the set of entries as they
\* were.
C26_MarkResolvedFrame ==
    [][(last'.op = "MarkResolved" /\ last'.hash \in DOMAIN Table)
       => /\ last'.err = "nil"
          /\ DOMAIN TableAfter = DOMAIN Table
          /\ \A h \in DOMAIN Table \ {last'.hash} : TableAfter[h] = Table[h]
          /\ TableAfter[last'.hash] =
                [Table[last'.hash] EXCEPT !.Analysis.Resolved = TRUE,
                                          !.Analysis.ResolvedADRID = last'.adrID]
      ]_vars

\* MarkResolved has succeeded on an entry past its TTL, next to another entry
C26_Witness ==
    /\ last.op = "MarkResolved" /\ last.err = "nil"
    /\ last.hash \in DOMAIN Table
    /\ TooOld(Table[last.hash].Analysis, now)
    /\ Table[last.hash].Analysis.ResolvedADRID = last.adrID
    /\ DOMAIN Table # {last.hash}

PersistedLastCleanup(d) == Unmarshal(d.data).Metadata.LastCleanup

\* C28: a Cleanup that removes no entry leaves the file as it was, absent if
\* it was absent; a Cleanup that removes an entry writes the file with
\* last_cleanup set to the time of the call.
C28_CleanupWritesOnRemoval ==
    [][(last'.op = "Cleanup" /\ last'.err = "nil") =>
        IF \E h \in DOMAIN Table :
                TooOld(Table[h].Analysis, now) \/ Table[h].Analysis.Resolved
        THEN disk'.exists /\ PersistedLastCleanup(disk') = now
        ELSE disk' = disk
      ]_vars

\* A Cleanup on a later day than the last write has removed an entry
C28_Witness ==
    /\ last.op = "Cleanup" /\ last.err = "nil"
    /\ last.removed # {}
    /\ now > 0
    /\ PersistedLastCleanup(disk) = now
    /\ DOMAIN Table # {}

\* The table of the eviction specification with the entry of the Put in it
Inserted ==
    [h \in DOMAIN fpOut.before \cup {fpIn.hash} |->
        IF h = fpIn.hash
        THEN [ContentHash |-> h, Analysis |-> fpIn.analysis]
        ELSE fpOut.before[h]]

\* Entry e is neither resolved nor past its TTL
Live(e) == ~e.Analysis.Resolved /\ ~TooOld(e.Analysis, now)

\* C29: the eviction of Put counts resolved and expired entries like any
\* other and picks its victims by ascending timestamp alone: the table ends
\* with MaxEntries entries when the insertion went over, no evicted entry is
\* newer than a kept one, and a resolved or expired entry is never evicted
\* while an older unresolved, unexpired entry stays.
C29_EvictionIgnoresStatus ==
    fpPc = "done" =>
        LET keys    == DOMAIN Inserted
            evicted == keys \ DOMAIN Table
        IN  /\ DOMAIN Table \subseteq keys
            /\ Cardinality(DOMAIN Table)
                = (IF Cardinality(keys) > config.MaxEntries
                   THEN config.MaxEntries ELSE Cardinality(keys))
            /\ \A e \in evicted, k \in DOMAIN Table :
                    Inserted[e].Analysis.Timestamp <= Inserted[k].Analysis.Timestamp
            /\ \A e \in DOMAIN Table, k \in evicted :
                    ~(/\ Live(Inserted[e]) /\ ~Live(Inserted[k])
                      /\ Inserted[e].Analysis.Timestamp < Inserted[k].Analysis.Timestamp)

\* The Put has evicted an unresolved, unexpired entry and kept a newer entry
\* that is resolved
C29_Witness ==
    /\ fpPc = "done"
    /\ \E e \in DOMAIN Inserted \ DOMAIN Table, k \in DOMAIN Table :
            /\ Live(Inserted[e])
            /\ Inserted[k].Analysis.Resolved
            /\ Inserted[e].Analysis.Timestamp < Inserted[k].Analysis.Timestamp

\* The entry a StoreAnalysis at time t in working tree g is to leave at hash h
StoredBy(h, g, t, decision, suggestion, title) ==
    [ContentHash |-> h,
     Analysis    |-> [Decision |-> decision, Suggestion |-> suggestion,
                      Title |-> title, Timestamp |-> t,
                      ChangesAnalyzed |-> <<>>, CommitRange |-> TierRange(g),
                      Resolved |-> FALSE, ResolvedADRID |-> 0]]

\* C30: a StoreAnalysis that returns nil leaves, at the content hash of the
\* working tree, the entry built from its arguments and the fingerprint,
\* whatever was at that hash before.
C30_StoreAnalysisEntry ==
    [][(last'.op = "StoreAnalysis" /\ last'.err = "nil") =>
        /\ last'.hash \in {fp.contentHash : fp \in GenerateFingerprint(config, git, now)}
        /\ last'.hash \in DOMAIN TableAfter
        /\ TableAfter[last'.hash]
            = StoredBy(last'.hash, git, now, last'.decision, "why", "Use X")
      ]_vars

\* C30, amended: the entry is there unless the capacity eviction of the Put
\* removed it; it is not removed when MaxEntries >= 1 and every other entry
\* has an earlier timestamp.
C30_StoreAnalysisEntryUnlessEvicted ==
    [][(last'.op = "StoreAnalysis" /\ last'.err = "nil") =>
        /\ last'.hash \in {fp.contentHash : fp \in GenerateFingerprint(config, git, now)}
        /\ last'.hash \in DOMAIN TableAfter
            => TableAfter[last'.hash]
                = StoredBy(last'.hash, git, now, last'.decision, "why", "Use X")
        /\ (/\ config.MaxEntries >= 1
            /\ \A k \in DOMAIN Table \ {last'.hash} :
                    Table[k].Analysis.Timestamp < now)
            => last'.hash \in DOMAIN TableAfter
      ]_vars

\* A StoreAnalysis on a later day has left its entry, with the decision "no",
\* next to an older entry
C30_Witness ==
    /\ last.op = "StoreAnalysis" /\ last.err = "nil"
    /\ last.decision = "no"
    /\ last.hash \in DOMAIN Table
    /\ Table[last.hash].Analysis.Timestamp = now
    /\ now > 0
    /\ \E k \in DOMAIN Table : Table[k].Analysis.Timestamp < now

\* C25: on a file of the current version whose "entries" is null or that has
\* entries with a null "analysis", every call returns: none panics.
C25_NoCrashOnNull ==
    last.op \in {"Get", "Put", "MarkResolved", "Cleanup",
                 "GetUnresolvedAnalyses", "GetCacheStats"}
        => ~last.panic

\* The files the two calls can leave when one runs after the other, in
\* either order
SerialFiles ==
    UNION {UNION {RunAlone(fpIn[pq[2]], d, config, now)
                    : d \in RunAlone(fpIn[pq[1]], fpOut.initial, config, now)}
            : pq \in {<<1, 2>>, <<2, 1>>}}

\* C22: when the steps of two calls interleave, a hit that GetAnalysis
\* returns after both have returned is a hit it returns after the two calls
\* ran one after the other, in one order or the other.
C22_HitsAreSerial ==
    (fpOut.answer.asked /\ fpOut.answer.found) =>
        \E d \in SerialFiles :
            \E r \in GetAnalysis(d, config, git, now) :
                r.found /\ r.analysis = fpOut.answer.analysis

\* C31: a cache file written by Save records as metadata.total_size the
\* number of its entries, and as version the current format version, after
\* any sequence of Put, Get, MarkResolved, Cleanup and Clear.
C31_SavedMetadata ==
    disk.exists =>
        /\ disk.data.metadata.total_size = Cardinality(DOMAIN disk.data.entries)
        /\ disk.data.version = CacheVersion

\* Save has written a file of two entries, then one of them was resolved
C31_Witness ==
    /\ disk.exists
    /\ Cardinality(DOMAIN disk.data.entries) = 2
    /\ disk.data.metadata.total_size = 2
    /\ last.op = "MarkResolved" /\ last.err = "nil"

\* C32: a raw diff whose sections all belong to excluded files filters to
\* the empty string, and its contentHash is the contentHash of the empty
\* diff under the same commit range and branch.
C32_AllExcludedIsEmpty ==
    (fpPc = "done"
        /\ \A i \in DOMAIN fpIn.sections :
                ~shouldIncludeFile(config, fpIn.sections[i].path))
    => (fpOut.filtered = "" /\ fpOut.hash = fpOut.emptyHash)

\* The path lies under a directory named dir, at the top level or deeper
UnderDirectory(filePath, dir) ==
    HasPrefix(filePath, dir \o "/") \/ Contains(filePath, "/" \o dir \o "/")

\* C33: under DefaultCacheConfig every path anywhere under a docs/,
\* documentation/, .drduck/ or .git/ directory is excluded, also when the
\* directory is at the top level or the file is nested deeper below it.
C33_DocTreesExcluded ==
    (fpPc = "done" /\ config = DefaultCacheConfig
        /\ \E dir \in {"docs", "documentation", ".drduck", ".git"} :
                UnderDirectory(fpIn.filePath, dir))
    => ~fpOut.included

\* The timer has fired and the AI call had not returned by then
TimerFiredFirst ==
    fpOut.timer.fired /\ (fpPc.worker = "running" \/ fpOut.firedFirst)

\* C34: when the AI call returns an error, or the timer fires before the AI
\* call returns, analyzeRecentChanges returns a nil error and the fallback
\* text, and it keeps that return when the AI result arrives late.
C34_FallbackOnErrorOrTimeout ==
    (last.op = "analyzeRecentChanges" /\ last.called
        /\ (fpIn.ai.err # "nil" \/ TimerFiredFirst))
    => /\ last.err = "nil"
       /\ last.analysis = generateFallbackAnalysis(fpIn.changes, wasTruncated(fpIn))
       /\ last.analysis # fpIn.ai.analysis

\* The timer fired first, the fallback was returned, and then the AI call
\* returned a result without error, which is in the channel
C34_Witness ==
    /\ last.op = "analyzeRecentChanges" /\ last.called
    /\ fpOut.sel.case = "timeout" /\ fpOut.firedFirst
    /\ fpIn.ai.err = "nil"
    /\ fpPc.worker = "exited" /\ Len(fpOut.chan) = 1
    /\ last.analysis = generateFallbackAnalysis(fpIn.changes, wasTruncated(fpIn))

\* C35: the send of the goroutine never blocks, so the goroutine exits once
\* the AI call has returned; analyzeWithTimeout returns, once, the AI result
\* or the timeout error.
C35_SendNeverBlocks ==
    /\ [](/\ fpPc.worker # "blocked"
          /\ fpOut.returns <= 1
          /\ fpOut.sel.case # "none" =>
                \/ /\ fpOut.sel.case = "result"
                   /\ fpOut.sel.analysis = fpIn.ai.analysis
                   /\ fpOut.sel.err = fpIn.ai.err
                \/ /\ fpOut.sel.case = "timeout"
                   /\ fpOut.sel.analysis = "" /\ fpOut.sel.err = TimeoutErr)
    /\ (fpPc.worker = "send") ~> (fpPc.worker = "exited")
    /\ (fpPc.main = "select") ~> (fpOut.returns = 1)

\* The goroutine has sent its result after the timer fired and the caller
\* returned
C35_Witness ==
    /\ fpOut.returns = 1 /\ fpOut.sel.case = "timeout"
    /\ fpPc.worker = "exited" /\ fpOut.firedFirst
    /\ fpOut.chan = <<fpIn.ai>>

\* The changes of status that set-status makes
SetStatusTable ==
    {<<StatusDraft, StatusInProgress>>, <<StatusDraft, StatusRejected>>,
     <<StatusInProgress, StatusDraft>>, <<StatusInProgress, StatusRejected>>,
     <<StatusAccepted, StatusSuperseded>>,
     <<StatusRejected, StatusDraft>>, <<StatusRejected, StatusInProgress>>}

C37_AcceptedIsFinal ==
    (last.op \in {"set-status", "accept", "edit"} /\ last.before.exists)
    => /\ last.before.status = StatusAccepted
            => disk.status \in {StatusAccepted, StatusSuperseded}
       /\ last.before.status = StatusSuperseded => disk.status = StatusSuperseded

\* Some ADR of the directory has status Draft
HasDraft == \E i \in DOMAIN fpIn.statuses : fpIn.statuses[i] = StatusDraft

\* The AI analysis of the hook fails: no provider, no answer from git, or an
\* error of the provider on changes that are not empty
AIFails ==
    \/ ~fpIn.available
    \/ fpIn.changesErr
    \/ fpIn.changes # "" /\ fpIn.aiErr

\* C38: ValidatePrePush blocks when the draft check fails or some ADR is in
\* Draft; with no drafts and a failing AI analysis it does not block;
\* ValidatePreCommit never blocks.
C38_HookBlocking ==
    /\ last.op = "ValidatePrePush" =>
        /\ (fpIn.listErr \/ HasDraft) => last.result.ShouldBlock
        /\ (~fpIn.listErr /\ ~HasDraft /\ AIFails) => ~last.result.ShouldBlock
    /\ last.op = "ValidatePreCommit" => ~last.result.ShouldBlock

\* A push without drafts went through although the AI provider failed on
\* changes an ADR would have been asked for
C38_Witness ==
    /\ last.op = "ValidatePrePush"
    /\ ~fpIn.listErr /\ ~HasDraft /\ Len(fpIn.statuses) = 2
    /\ fpIn.available /\ ~fpIn.changesErr /\ fpIn.changes # "" /\ fpIn.aiErr
    /\ ~last.result.ShouldBlock
    /\ last.result.Message = "Could not analyze changes with AI"
====
